---------------------------- MODULE Spec2Model ----------------------------
(***************************************************************************)
(* Model of the earnings-call analyzer's scoring layer:                    *)
(*   - RateLimiter.waitIfNeeded and the shared rateLimiter instance        *)
(*     (analyzer/lib/ai-analyzer.ts),                                      *)
(*   - analyzeTranscriptWithAI, the remote scorer, batchAnalyzeWithAI and  *)
(*     compareQuartersWithAI (same file),                                  *)
(*   - analyzeTranscript, the keyword scorer, and analyzeQASection         *)
(*     (analyzer/lib/analyzer.ts),                                         *)
(*   - the analysis route's POST handler and the transcripts route's GET   *)
(*     handler (unnamed/part_000),                                         *)
(*   - the dashboard's historicalData (analyzer/components/Dashboard.tsx). *)
(* Time is Date.now() in milliseconds.  An async function runs without     *)
(* interruption up to an await that really suspends (a timer, a network    *)
(* call); each such stretch is one action.                                 *)
(***************************************************************************)
EXTENDS Integers, Sequences, FiniteSets, TLC

\* ------------------------------------------------------------------------
\* Program constants
\* ------------------------------------------------------------------------
maxRequests == 15

timeWindow == 60000

\* analyzeTranscript's simulated processing time
processingTime == 800

\* keyThemes.slice(0, 5)
maxThemes == 5

\* the listing endpoints getTranscriptList tries
endpoints == 3

\* the transcripts route fetches the content of up to 4 items
maxFetch == 4

\* the pause between two items, in milliseconds
fetchPause == 1500

\* ------------------------------------------------------------------------
\* Bounds of the model
\* ------------------------------------------------------------------------
\* free clock steps (beside the jumps to a due timer) of the sequential caller
MaxSeqTicks == 2

\* free clock steps when callers run concurrently
MaxTicks == 1

\* waitIfNeeded calls of the single sequential caller
MaxSeqCalls == 31

\* waitIfNeeded calls of the concurrent callers
MaxCalls == 17

\* concurrent callers of waitIfNeeded
NumCallers == 2

\* requests the analysis route (or a direct caller of the remote scorer) serves
MaxPosts == 2

\* free clock steps while the route serves requests
MaxRouteTicks == 1

\* whole-word matches of a positive, and of a negative, word in a scored text
MaxCount == 23

\* how far beyond 0 and 100 the scores of the provider's JSON go
MaxOver == 2

\* calls a direct caller of a scorer makes
MaxScoreCalls == 1

\* calls a direct caller of analyzeQASection makes
MaxQACalls == 2

\* entries of the list handed to batchAnalyzeWithAI
MaxBatch == 3

\* calls of batchAnalyzeWithAI
MaxBatches == 1

\* analyses the dashboard stores
MaxStores == 3

\* calls the two clients of the shared limiter make
MaxSharedCalls == 2

\* items of a listing
MaxItems == 5

\* requests the transcripts route serves
MaxGets == 1

\* calls of compareQuartersWithAI
MaxCompares == 2

\* free clock steps while comparisons run
MaxCompareTicks == 1

\* the clock steps taken by Tick: one millisecond, and one short of a window
TickSteps == {1, timeWindow - 1}

VARIABLES
    now,        \* Date.now()
    ticks,      \* free clock steps left
    requests,   \* RateLimiter.requests of the shared rateLimiter
    released,   \* log of the releases still inside the trailing window
    budget,     \* calls (requests) the callers may still start
    apiKey,     \* process.env.GEMINI_API_KEY
    kind,       \* per caller: what it runs: "limiter" (waitIfNeeded alone),
                \* "scoreOne" (analyzeTranscriptWithAI), "route" (POST),
                \* "scorer" (analyzeTranscript), "batch" (batchAnalyzeWithAI),
                \* "qa" (analyzeQASection),
                \* "compare" (compareQuartersWithAI), "dashboard" (the
                \* dashboard's analyzeTranscript), "transcripts" (GET of
                \* the transcripts route)
    task        \* per caller: where it stands and its locals

vars == <<now, ticks, requests, released, budget, apiKey, kind, task>>

Procs == DOMAIN task

\* ------------------------------------------------------------------------
\* Values
\* ------------------------------------------------------------------------
UNDEFINED == "<undefined>"

\* a JavaScript number: an integer v, v + 1/2, or NaN
Whole(n) == [k |-> "int", v |-> n]

Half(n) == [k |-> "frac", v |-> n]

NaN == [k |-> "nan", v |-> 0]

\* what a call yields: null, a value, or an exception raised
Null == [t |-> "null"]

Val(x) == [t |-> "value", v |-> x]

Raise(e) == [t |-> "raise", err |-> e]

\* a request-body value: a string (a sequence of words joined by single
\* spaces; <<>> is the empty string), undefined, or something else
Str(text) == [type |-> "string", truthy |-> text # <<>>, text |-> text]

Undefined == [type |-> "undefined", truthy |-> FALSE, text |-> <<>>]

Other(truthy) == [type |-> "other", truthy |-> truthy, text |-> <<>>]

\* ------------------------------------------------------------------------
\* analyzeTranscript, the keyword scorer (analyzer/lib/analyzer.ts)
\* ------------------------------------------------------------------------
Vocab == {"growth", "Strong", "decline", "record", "prerecord", "revenue",
          "cloud", "AI", "outlook", "exceeded", "expectations", "gaming",
          "supply", "automotive", "partner", "gain",
          "absolutely", "Absolutely", "definitely", "certainly", "clearly",
          "obviously", "however", "but", "contribute", "although", "despite",
          "challenging"}

\* String.prototype.toLowerCase on a word
LowerWord(w) ==
    CASE w = "Strong" -> "strong"
      [] w = "AI" -> "ai"
      [] w = "Absolutely" -> "absolutely"
      [] OTHER -> w

\* line 10
toLowerCase(text) == [i \in DOMAIN text |-> LowerWord(text[i])]

positiveWords ==
    <<"growth", "strong", "record", "exceeded", "positive", "momentum",
      "accelerate", "breakthrough", "innovation", "excellent", "robust",
      "outperform", "surge", "expand", "increase", "improve", "gain">>

negativeWords ==
    <<"decline", "challenge", "concern", "weak", "difficult", "uncertainty",
      "risk", "pressure", "decrease", "slow", "issue", "problem", "loss",
      "below", "miss", "disappoint", "struggle", "threat">>

\* the words of Vocab (lower case) that properly end, start or contain another
ProperSuffix == {<<"prerecord", "record">>}

ProperPrefix == {<<"prerecord", "pre">>}

ProperInfix == {<<"prerecord", "rerecor">>, <<"gain", "ai">>, <<"contribute", "but">>}

EndsWith(w, s) == w = s \/ <<w, s>> \in ProperSuffix

StartsWith(w, s) == w = s \/ <<w, s>> \in ProperPrefix

Contains(w, s) ==
    w = s \/ <<w, s>> \in ProperSuffix \cup ProperPrefix \cup ProperInfix

\* text.match(new RegExp(`\\b${word}\\b`, 'gi')).length: the words of the text
\* are maximal runs of word characters, so a whole-word match is a word
MatchCount(text, word) == Cardinality({i \in DOMAIN text : text[i] = word})

\* lines 29-33, 35-39: the forEach that sums the matches of a word list
RECURSIVE SumMatches(_, _, _)
SumMatches(text, words, n) ==
    IF n = 0 THEN 0
    ELSE SumMatches(text, words, n - 1) + MatchCount(text, words[n])

\* text.includes of a one-word and of a two-word phrase
IncludesWord(text, s) == \E i \in DOMAIN text : Contains(text[i], s)

IncludesPhrase(text, a, b) ==
    \E i \in DOMAIN text :
        i + 1 \in DOMAIN text /\ EndsWith(text[i], a) /\ StartsWith(text[i + 1], b)

\* JavaScript numbers are IEEE-754 binary64: a significand of Precision bits.
\* A positive number is [bits, exp]: the bits of its significand, most
\* significant (a 1) first, read as the binary fraction 0.b1 b2 ..., times 2^exp.
Precision == 53

\* the arithmetic below works on limbs of LimbBits bits
LimbBits == 18

\* how often r doubles before it reaches d
RECURSIVE Shifts(_, _)
Shifts(r, d) == IF r >= d THEN 0 ELSE 1 + Shifts(2 * r, d)

\* 2^i modulo d
RECURSIVE Pow2Mod(_, _)
Pow2Mod(i, d) ==
    IF i = 0 THEN 1 % d
    ELSE LET h == Pow2Mod(i \div 2, d)
         IN (h * h * (IF i % 2 = 1 THEN 2 ELSE 1)) % d

RECURSIVE ToInteger(_)
ToInteger(bits) ==
    IF bits = <<>> THEN 0
    ELSE 2 * ToInteger(SubSeq(bits, 1, Len(bits) - 1)) + bits[Len(bits)]

RECURSIVE Binary(_)
Binary(n) == IF n = 0 THEN <<>> ELSE Append(Binary(n \div 2), n % 2)

Limb(n) == [i \in 1..LimbBits |-> (n \div 2^(LimbBits - i)) % 2]

\* the bits of the next larger integer
Increment(bits) ==
    LET zeros == {i \in DOMAIN bits : bits[i] = 0}
    IN IF zeros = {} THEN <<1>> \o [i \in DOMAIN bits |-> 0]
       ELSE LET j == CHOOSE i \in zeros : \A z \in zeros : z <= i
            IN [i \in DOMAIN bits |-> IF i < j THEN bits[i] ELSE IF i = j THEN 1 ELSE 0]

\* round to nearest, ties to even; sticky: digits beyond `bits` are not all 0
RoundToPrecision(bits, exp, sticky) ==
    LET kept == SubSeq(bits, 1, Precision)
        guard == Len(bits) > Precision /\ bits[Precision + 1] = 1
        rest == sticky \/ \E i \in (Precision + 2)..Len(bits) : bits[i] = 1
        up == guard /\ (rest \/ kept[Precision] = 1)
        raised == Increment(kept)
    IN IF ~up THEN [bits |-> kept, exp |-> exp]
       ELSE IF Len(raised) > Precision
       THEN [bits |-> SubSeq(raised, 1, Precision), exp |-> exp + 1]
       ELSE [bits |-> raised, exp |-> exp]

\* line 46: positiveScore / totalSentimentWords, for 0 < p <= d
Divide(p, d) ==
    LET k == Shifts(p, d)
        first == (p * 2^k) % d
        rem(j) == (first * Pow2Mod(j, d)) % d
        bits == [i \in 1..(Precision + 1) |->
                    IF i = 1 \/ 2 * rem(i - 2) >= d THEN 1 ELSE 0]
    IN RoundToPrecision(bits, 1 - k, rem(Precision) > 0)

\* line 47: positiveRatio * 100, for a small integer m
Multiply(x, m) ==
    LET width == 3 * LimbBits
        padded == [i \in 1..(width - Precision) |-> 0] \o x.bits
        limb(n) == ToInteger(SubSeq(padded, (n - 1) * LimbBits + 1, n * LimbBits))
        low == limb(3) * m
        mid == limb(2) * m + low \div 2^LimbBits
        high == limb(1) * m + mid \div 2^LimbBits
        product == Binary(high) \o Limb(mid % 2^LimbBits) \o Limb(low % 2^LimbBits)
    IN RoundToPrecision(product, x.exp + (Len(product) - Precision), FALSE)

\* Math.round: the nearest integer, a tie going up
MathRound(x) ==
    IF x.exp < 0 THEN 0
    ELSE ToInteger(SubSeq(x.bits, 1, x.exp)) + x.bits[x.exp + 1]

\* lines 46-47: Math.round((positiveScore / totalSentimentWords) * 100)
RoundRatio(p, total) ==
    IF p = 0 THEN 0 ELSE MathRound(Multiply(Divide(p, total), 100))

\* lines 42-48
BaseScore(p, n) == IF p + n > 0 THEN RoundRatio(p, p + n) ELSE 50

\* line 51
HasBonus(text) ==
    \/ IncludesPhrase(text, "record", "revenue")
    \/ IncludesPhrase(text, "exceeded", "expectations")

Min(a, b) == IF a < b THEN a ELSE b

Max(a, b) == IF a > b THEN a ELSE b

\* lines 50-53
WithBonus(score, bonus) == IF bonus THEN Min(100, score + 10) ELSE score

\* lines 58-92: the theme table, in order
ThemeTable ==
    << [name |-> "AI/ML Growth",
        words |-> {"ai", "neural"},
        phrases |-> {<<"artificial", "intelligence">>, <<"machine", "learning">>}],
       [name |-> "Data Center Expansion",
        words |-> {"datacenter", "cloud", "hgx", "dgx"},
        phrases |-> {<<"data", "center">>}],
       [name |-> "Gaming Revenue",
        words |-> {"gaming", "geforce", "rtx", "game"},
        phrases |-> {}],
       [name |-> "Supply Chain Management",
        words |-> {"supply", "inventory", "manufacturing", "production"},
        phrases |-> {}],
       [name |-> "Automotive Innovation",
        words |-> {"automotive", "self-driving", "autonomous"},
        phrases |-> {}],
       [name |-> "Strategic Partnerships",
        words |-> {"partner", "collaboration", "customer"},
        phrases |-> {}] >>

ThemeMatches(text, row) ==
    \/ \E s \in row.words : IncludesWord(text, s)
    \/ \E ph \in row.phrases : IncludesPhrase(text, ph[1], ph[2])

RECURSIVE DetectThemes(_, _)
DetectThemes(text, n) ==
    IF n = 0 THEN <<>>
    ELSE LET before == DetectThemes(text, n - 1)
         IN IF ThemeMatches(text, ThemeTable[n])
            THEN Append(before, ThemeTable[n].name)
            ELSE before

\* mutant: the default theme is pushed whatever was detected
ThemesWithDefault(text) ==
    Append(DetectThemes(text, Len(ThemeTable)), "General Business Performance")

\* lines 95-97
Themes(text) ==
    LET themes == DetectThemes(text, Len(ThemeTable))
    IN IF Len(themes) = 0 THEN <<"General Business Performance">> ELSE themes

\* mutant: the list is not cut
SliceAll(seq, n) == seq

\* Array.prototype.slice(0, n)
Slice(seq, n) == SubSeq(seq, 1, Min(n, Len(seq)))

\* mutant: the thresholds are exclusive
LabelAbove(score) ==
    IF score > 65 THEN "positive"
    ELSE IF score > 35 THEN "neutral"
    ELSE "negative"

\* lines 103-110
Label(score) ==
    IF score >= 65 THEN "positive"
    ELSE IF score >= 35 THEN "neutral"
    ELSE "negative"

\* mutant: the tone has thresholds of its own, 60 and 40
ToneNarrowMixed(score) ==
    IF score >= 60 THEN "confident"
    ELSE IF score <= 40 THEN "cautious"
    ELSE "mixed"

\* lines 113-120
Tone(score) ==
    IF score >= 70 THEN "confident"
    ELSE IF score <= 30 THEN "cautious"
    ELSE "mixed"

\* line 123
Summary(label, theme) == <<"Management expressed", label, "sentiment with emphasis on", theme>>

\* lines 10-133, on a string
ScoreText(transcriptText) ==
    LET text == toLowerCase(transcriptText)
        positiveScore == SumMatches(text, positiveWords, Len(positiveWords))
        negativeScore == SumMatches(text, negativeWords, Len(negativeWords))
        score == WithBonus(BaseScore(positiveScore, negativeScore), HasBonus(text))
        topThemes == Slice(Themes(text), maxThemes)
    IN [managementSentiment |->
            [score |-> Whole(score), label |-> Label(score),
             summary |-> Summary(Label(score), topThemes[1])],
        keyThemes |-> topThemes,
        overallTone |-> Tone(score)]

\* mutant: a text without any sentiment word is not scored
ScoreOrNull(transcript) ==
    IF transcript.type # "string" THEN Null
    ELSE IF ScoreText(transcript.text).managementSentiment.score = Whole(50) THEN Null
    ELSE Val(ScoreText(transcript.text))

\* lines 5-139: toLowerCase of a value that is no string raises, and the catch
\* of line 135 returns null
analyzeTranscript(transcript) ==
    IF transcript.type = "string" THEN Val(ScoreText(transcript.text)) ELSE Null

\* ------------------------------------------------------------------------
\* analyzeQASection (analyzer/lib/analyzer.ts, lines 142-165)
\* ------------------------------------------------------------------------
\* line 147
confidentWords == <<"absolutely", "definitely", "certainly", "clearly", "obviously">>

\* line 148
defensiveWords == <<"however", "but", "although", "despite", "challenging">>

\* mutant: every occurrence of a word moves the score
RECURSIVE AdjustPerMatch(_, _, _, _, _)
AdjustPerMatch(score, text, words, n, step) ==
    IF n = 0 THEN score
    ELSE AdjustPerMatch(score, text, words, n - 1, step)
            + step * Cardinality({i \in DOMAIN text : Contains(text[i], words[n])})

\* lines 151-153, 154-156: the forEach that moves the score by `step` for each
\* word of the list the text includes
RECURSIVE Adjust(_, _, _, _, _)
Adjust(score, text, words, n, step) ==
    IF n = 0 THEN score
    ELSE Adjust(score, text, words, n - 1, step)
            + (IF IncludesWord(text, words[n]) THEN step ELSE 0)

\* line 162
QALabel(score) ==
    IF score >= 65 THEN "positive" ELSE IF score >= 35 THEN "neutral" ELSE "negative"

\* lines 144-164, on a string: the function has no await, no try and no
\* early return
analyzeQASection(qaText) ==
    LET text == toLowerCase(qaText)
        raised == Adjust(50, text, confidentWords, Len(confidentWords), 5)
        lowered == Adjust(raised, text, defensiveWords, Len(defensiveWords), -5)
        score == Max(0, Min(100, lowered))
    IN [score |-> Whole(score), label |-> QALabel(score),
        summary |-> <<"Q&A session analysis based on response patterns">>]

\* the Q&A texts: the words of any set of the ten phrases, a phrase twice and
\* in upper case, "but" inside another word, a text with none of them
QAWords == confidentWords \o defensiveWords

QATexts ==
    {SelectSeq(QAWords, LAMBDA w : w \in S) : S \in SUBSET {QAWords[i] : i \in DOMAIN QAWords}}
        \cup { <<"Absolutely", "absolutely">>, <<"contribute">>, <<"outlook">>,
               <<"but", "but", "but", "however">> }

\* ------------------------------------------------------------------------
\* analyzeTranscriptWithAI, the remote scorer (analyzer/lib/ai-analyzer.ts)
\* ------------------------------------------------------------------------
\* the JSON object a provider text may hold
Json(hasMS, score, label, themesIsArray, keyThemes, tone) ==
    [hasMS |-> hasMS, score |-> score, label |-> label, summary |-> "summary",
     themesIsArray |-> themesIsArray, keyThemes |-> keyThemes, overallTone |-> tone]

EmptyObject == Json(FALSE, NaN, UNDEFINED, FALSE, <<>>, UNDEFINED)

\* a provider text is a sequence of segments: prose without braces, a lone
\* "{", a lone "}", or the text of one well-formed JSON object
Prose == [k |-> "prose", v |-> EmptyObject]

Open == [k |-> "open", v |-> EmptyObject]

Close == [k |-> "close", v |-> EmptyObject]

Object(j) == [k |-> "json", v |-> j]

\* what fetch and the response hold
Reply(net, ok, json, hasText, text) ==
    [net |-> net, ok |-> ok, json |-> json, hasText |-> hasText, text |-> text]

NoReply == Reply("none", FALSE, FALSE, FALSE, <<>>)

GoodJson == Json(TRUE, Whole(85), "positive", TRUE, <<"AI Infrastructure">>, "confident")

HighJson ==
    Json(TRUE, Whole(150), "neutral", TRUE,
         <<"t1", "t2", "t3", "t4", "t5", "t6">>, "mixed")

LowJson == Json(TRUE, Whole(-5), "negative", FALSE, <<>>, "cautious")

NoSentimentJson == Json(FALSE, NaN, UNDEFINED, TRUE, <<"t1">>, "mixed")

Replies ==
    { Reply("rejects", FALSE, FALSE, FALSE, <<>>),
      Reply("resolves", FALSE, FALSE, FALSE, <<>>),
      Reply("resolves", TRUE, FALSE, FALSE, <<>>),
      Reply("resolves", TRUE, TRUE, FALSE, <<>>),
      Reply("resolves", TRUE, TRUE, TRUE, <<Prose>>),
      Reply("resolves", TRUE, TRUE, TRUE, <<Open, Prose>>),
      Reply("resolves", TRUE, TRUE, TRUE, <<Open, Prose, Close>>),
      Reply("resolves", TRUE, TRUE, TRUE, <<Open, Close>>),
      Reply("resolves", TRUE, TRUE, TRUE, <<Object(NoSentimentJson)>>),
      Reply("resolves", TRUE, TRUE, TRUE, <<Object(GoodJson)>>),
      Reply("resolves", TRUE, TRUE, TRUE, <<Prose, Object(HighJson), Prose>>),
      Reply("resolves", TRUE, TRUE, TRUE, <<Object(LowJson)>>),
      Reply("resolves", TRUE, TRUE, TRUE,
            <<Object(GoodJson), Prose, Object(NoSentimentJson)>>) }

\* the scores, labels and theme lists a provider's JSON may carry
Scores ==
    {Whole(v) : v \in (0 - MaxOver)..(100 + MaxOver)}
        \cup {Half(v) : v \in (0 - MaxOver)..(100 + MaxOver)} \cup {NaN}

Labels == {"positive", "neutral", "negative", "bullish"}

ThemeLists ==
    {<<>>, <<"t1">>, <<"t1", "t2", "t3", "t4", "t5">>,
     <<"t1", "t2", "t3", "t4", "t5", "t6">>}

\* JSON objects with a managementSentiment: every score with every label, and
\* every theme list, as an array or not
Jsons ==
    {Json(TRUE, sc, l, TRUE, <<"t1">>, "mixed") : sc \in Scores, l \in Labels}
        \cup {Json(TRUE, Whole(85), "positive", isArray, th, "confident") :
                 isArray \in BOOLEAN, th \in ThemeLists}

\* replies whose text is one JSON object
JsonReplies == {Reply("resolves", TRUE, TRUE, TRUE, <<Object(j)>>) : j \in Jsons}

\* line 117: resultText.match(/\{[\s\S]*\}/): from the first "{" to the last "}"
Opens(text) == {i \in DOMAIN text : text[i].k \in {"open", "json"}}

Closes(text) == {i \in DOMAIN text : text[i].k \in {"close", "json"}}

Least(S) == CHOOSE i \in S : \A j \in S : i <= j

Greatest(S) == CHOOSE i \in S : \A j \in S : i >= j

HasJsonMatch(text) ==
    /\ Opens(text) # {}
    /\ Closes(text) # {}
    /\ Least(Opens(text)) <= Greatest(Closes(text))

JsonMatch(text) == SubSeq(text, Least(Opens(text)), Greatest(Closes(text)))

\* line 122: JSON.parse of the matched text
JsonParse(span) ==
    IF Len(span) = 1 /\ span[1].k = "json" THEN Val(span[1].v)
    ELSE IF span = <<Open, Close>> THEN Val(EmptyObject)
    ELSE Raise("SyntaxError")

\* mutant: the score is capped at 100 only
ClampAbove(x) ==
    IF x.k = "nan" THEN NaN
    ELSE IF x.v >= 100 THEN Whole(100)
    ELSE x

\* line 127: Math.max(0, Math.min(100, score))
Clamp(x) ==
    IF x.k = "nan" THEN NaN
    ELSE IF x.v < 0 THEN Whole(0)
    ELSE IF x.v >= 100 THEN Whole(100)
    ELSE x

\* lines 125-133
Normalize(j) ==
    IF ~j.hasMS THEN Raise("TypeError")
    ELSE Val([managementSentiment |->
                 [score |-> Clamp(j.score), label |-> j.label, summary |-> j.summary],
              keyThemes |-> IF j.themesIsArray THEN Slice(j.keyThemes, maxThemes) ELSE <<>>,
              overallTone |-> j.overallTone])

\* lines 104-133: the try block from the reply on
HandleReply(r) ==
    IF r.net = "rejects" THEN Raise("TypeError")
    ELSE IF ~r.ok THEN Raise("Error")
    ELSE IF ~r.json THEN Raise("SyntaxError")
    ELSE IF ~r.hasText THEN Raise("Error")
    ELSE IF ~HasJsonMatch(r.text) THEN Raise("Error")
    ELSE LET parsed == JsonParse(JsonMatch(r.text))
         IN IF parsed.t = "raise" THEN parsed ELSE Normalize(parsed.v)

\* mutant: the catch handles only the errors the function throws itself
CatchOwnErrors(o) == IF o.t = "raise" /\ o.err = "Error" THEN Null ELSE o

\* lines 135-138: the catch returns null for whatever the try block raised
Catch(o) == IF o.t = "raise" THEN Null ELSE o

\* lines 40-138 from the reply on
AfterFetch(r) == Catch(HandleReply(r))

\* mutant: the credential check is missing
KeyNeverMissing(key) == FALSE

\* line 35
KeyMissing(key) == key = ""

\* line 64: transcriptText.slice raises on a value that has no slice
PromptRaises(transcript) == transcript.type # "string"

\* ------------------------------------------------------------------------
\* The analysis route, POST (unnamed/part_000)
\* ------------------------------------------------------------------------
NoResponse == [status |-> 0, error |-> "", success |-> FALSE, analysis |-> Null,
               method |-> "", aiPowered |-> FALSE, aiAvailable |-> FALSE,
               userRequestedAI |-> FALSE]

\* lines 431-434, 465-468, 485-488
ErrorResponse(status, error) ==
    [NoResponse EXCEPT !.status = status, !.error = error]

\* lines 471-482
SuccessResponse(a, method, key, useAI) ==
    [status |-> 200, error |-> "", success |-> TRUE, analysis |-> a,
     method |-> method, aiPowered |-> (method = "gemini-ai"),
     aiAvailable |-> (key # ""), userRequestedAI |-> useAI]

\* a request body: one that does not parse (request.json() or the destructuring
\* of line 428 raises), or an object with a transcript and a useAI flag
Body(parses, transcript, useAI) ==
    [parses |-> parses, transcript |-> transcript, useAI |-> useAI]

NoBody == Body(FALSE, Undefined, FALSE)

Transcripts ==
    { <<"outlook">>, <<"Strong", "growth", "cloud">>, <<"decline", "AI">> }

TranscriptValues ==
    {Undefined, Str(<<>>), Other(FALSE), Other(TRUE)} \cup {Str(t) : t \in Transcripts}

Bodies ==
    {NoBody} \cup {Body(TRUE, v, u) : v \in TranscriptValues, u \in BOOLEAN}

\* the word w, n times
Repeat(w, n) == [i \in 1..n |-> w]

\* what follows the sentiment words of a scored text: nothing, a bonus phrase
\* inside other words, a bonus phrase, both bonus phrases, a word of no list
Tails ==
    { <<>>, <<"prerecord", "revenue">>, <<"record", "revenue">>,
      <<"exceeded", "expectations">>,
      <<"record", "revenue", "exceeded", "expectations">>, <<"outlook">> }

\* one trigger of each theme, the last theme of the table first
Triggers == <<"partner", "automotive", "supply", "gaming", "cloud", "AI">>

\* texts with keywords of one, of five and of all six themes, texts with the
\* triggers of any set of themes, and texts in which the trigger of the first
\* theme occurs only inside the word "gain"
ThemeTexts ==
    { <<"cloud">>,
      <<"AI", "cloud", "gaming", "supply", "automotive">>,
      <<"partner", "automotive", "supply", "gaming", "cloud", "AI">>,
      <<"gain">>,
      <<"partner", "automotive", "supply", "gaming", "cloud", "gain">> }
        \cup {SelectSeq(Triggers, LAMBDA w : w \in S) :
                 S \in SUBSET {Triggers[i] : i \in DOMAIN Triggers}}

\* the texts the keyword scorer is run on
ScoreTexts ==
    {Repeat("growth", p) \o Repeat("decline", n) \o tail :
        p \in 0..MaxCount, n \in 0..MaxCount, tail \in Tails} \cup ThemeTexts

\* mutant: the typeof check is missing
TruthyTranscript(transcript) == transcript.truthy

\* line 430
ValidTranscript(transcript) == transcript.truthy /\ transcript.type = "string"

\* mutant: the useAI flag is ignored
WantsAIWheneverKey(body, key) == key # ""

\* lines 441-443
WantsAI(body, key) == body.useAI /\ key # ""

\* line 438
InitialMethod == "keyword-analysis"

\* line 447
MethodAfterAI == "gemini-ai"

\* line 460
MethodAfterLocal == "keyword-analysis"

\* mutant: the method reported is the one the request asked for
RequestedMethod(actualMethod, useAI) ==
    IF useAI THEN "gemini-ai" ELSE "keyword-analysis"

\* line 476: the method reported is actualMethod
ReportedMethod(actualMethod, useAI) == actualMethod

\* lines 464-482
Respond(a, actualMethod, key, useAI) ==
    IF a.t = "value"
    THEN SuccessResponse(a, ReportedMethod(actualMethod, useAI), key, useAI)
    ELSE ErrorResponse(500, "Analysis failed")

NoAI == [called |-> FALSE, reply |-> NoReply, ret |-> Null]

\* what a request has done so far: calls of waitIfNeeded, stamps pushed, provider
\* requests sent, calls of the keyword scorer
Nothing == [wait |-> 0, push |-> 0, fetch |-> 0, local |-> 0]

NoCall == [now |-> 0, oldestRequest |-> 0, full |-> FALSE, waited |-> FALSE]

\* Object.prototype, the prototype of an object literal
ObjectPrototype == [t |-> "Object.prototype"]

\* line 145: const results = {}: no own property, and the prototype of an
\* object literal
NoResults == [own |-> [q \in {} |-> Null], proto |-> ObjectPrototype]

\* a caller between two calls. A batch holds its entries, the index of the
\* entry it is at, its results, a log of the calls of the remote scorer it
\* made and of their returns, and what each call returned. The transcripts
\* route holds the list of items it found, the index of the item it is at,
\* the endpoint or attempt it is trying (step), the transcripts it has built
\* so far (entries), and a log of the replies of the listing endpoints.
InitialTask ==
    [pc |-> "idle", timer |-> 0, lim |-> NoCall, req |-> NoBody, ai |-> NoAI,
     analysis |-> Null, actualMethod |-> "", producer |-> "none",
     response |-> NoResponse, did |-> Nothing,
     entries |-> <<>>, index |-> 0, results |-> NoResults, log |-> <<>>,
     outcomes |-> <<>>, list |-> <<>>, step |-> 0]

\* ------------------------------------------------------------------------
\* RateLimiter.waitIfNeeded
\* ------------------------------------------------------------------------
\* line 16: this.requests.filter(time => now - time < this.timeWindow)
Retained(reqs, t) == SelectSeq(reqs, LAMBDA time : t - time < timeWindow)

\* line 18: this.requests.length >= this.maxRequests
WindowFull(kept) == Len(kept) >= maxRequests

\* mutant: the wait handed to setTimeout in seconds, as the log line has it
WaitTimeInSeconds(kept, t) == ((kept[1] + timeWindow) - t) \div 1000

\* lines 19-20: (oldestRequest + this.timeWindow) - now, oldestRequest = requests[0]
WaitTime(kept, t) == (kept[1] + timeWindow) - t

\* lines 18-22: the call suspends only for a positive waitTime
MustWait(kept, t) == WindowFull(kept) /\ WaitTime(kept, t) > 0

\* the locals of a call entered at time t
Locals(kept, t) ==
    [now |-> t, oldestRequest |-> IF WindowFull(kept) THEN kept[1] ELSE 0,
     full |-> WindowFull(kept), waited |-> MustWait(kept, t)]

\* line 28: this.requests.push(now), now being the constant of line 15
Stamp(l) == l.now

\* mutant: the timer's callback never calls resolve
TimerNeverResolves(due, t) == FALSE

\* setTimeout(resolve, delay) resolves no earlier than delay later
TimerDue(due, t) == t >= due

\* the log entry of a release at time t
ReleaseEntry(l, t) ==
    [at |-> t, stamp |-> Stamp(l), entered |-> l.now, full |-> l.full,
     waited |-> l.waited, oldest |-> l.oldestRequest]

\* ------------------------------------------------------------------------
\* The steps of a caller: each operator gives the caller's next state
\* ------------------------------------------------------------------------
\* analyzeTranscript is entered: line 8 awaits the processing time
StartLocal(s, t) ==
    [s EXCEPT !.pc = "sleeping", !.timer = t + processingTime, !.did.local = @ + 1]

\* mutant: POST without its fallback to the keyword scorer
AIReturnedNoFallback(s, k, r, ret, key, t) ==
    LET s1 == [s EXCEPT !.ai = [called |-> TRUE, reply |-> r, ret |-> ret]]
    IN IF k = "scoreOne"
       THEN [s1 EXCEPT !.analysis = ret,
                       !.producer = IF ret.t = "value" THEN "remote" ELSE "none",
                       !.pc = "done"]
       ELSE [s1 EXCEPT !.analysis = ret,
                       !.producer = IF ret.t = "value" THEN "remote" ELSE "none",
                       !.actualMethod = IF ret.t = "value" THEN MethodAfterAI ELSE InitialMethod,
                       !.response = Respond(ret, MethodAfterAI, key, s.req.useAI),
                       !.pc = "done"]

\* analyzeTranscriptWithAI returns ret. A direct caller keeps it. POST (lines
\* 445-462) answers a result, falls back to the keyword scorer on null, and
\* its catch (line 483) answers an exception.
AIReturned(s, k, r, ret, key, t) ==
    LET s1 == [s EXCEPT !.ai = [called |-> TRUE, reply |-> r, ret |-> ret]]
    IN IF k = "scoreOne"
       THEN [s1 EXCEPT !.analysis = ret,
                       !.producer = IF ret.t = "value" THEN "remote" ELSE "none",
                       !.pc = "done"]
       ELSE IF ret.t = "value"
       THEN [s1 EXCEPT !.analysis = ret,
                       !.producer = "remote",
                       !.actualMethod = MethodAfterAI,
                       !.response = Respond(ret, MethodAfterAI, key, s.req.useAI),
                       !.pc = "done"]
       ELSE IF ret.t = "null"
       THEN StartLocal(s1, t)
       ELSE [s1 EXCEPT !.response = ErrorResponse(500, ret.err), !.pc = "done"]

\* lines 44-102, after waitIfNeeded: the prompt is built and the request sent
SendRequest(s, k, key, t) ==
    IF PromptRaises(s.req.transcript)
    THEN AIReturned(s, k, NoReply, Catch(Raise("TypeError")), key, t)
    ELSE [s EXCEPT !.pc = "fetching", !.did.fetch = @ + 1]

\* waitIfNeeded has returned to its caller: a bare caller is done,
\* compareQuartersWithAI builds its prompt and sends its request (lines
\* 174-183), analyzeTranscriptWithAI goes on with lines 44-102
Continue(s, k, key, t) ==
    IF k = "limiter" THEN [s EXCEPT !.pc = "idle", !.did = Nothing]
    ELSE IF k = "compare" THEN [s EXCEPT !.pc = "fetching", !.did.fetch = @ + 1]
    ELSE SendRequest(s, k, key, t)

\* mutant: waitIfNeeded is called without await, so its caller goes on while
\* the limiter still waits
EnterWaitNotAwaited(s, k, reqs, key, t) ==
    LET kept == Retained(reqs, t)
        s1 == [s EXCEPT !.lim = Locals(kept, t)]
    IN IF MustWait(kept, t)
       THEN Continue(s1, k, key, t)
       ELSE Continue([s1 EXCEPT !.did.push = @ + 1], k, key, t)

\* lines 15-28 up to the await of line 24, or to the return
EnterWait(s, k, reqs, key, t) ==
    LET kept == Retained(reqs, t)
        s1 == [s EXCEPT !.lim = Locals(kept, t)]
    IN IF MustWait(kept, t)
       THEN [s1 EXCEPT !.pc = "suspended", !.timer = t + WaitTime(kept, t)]
       ELSE Continue([s1 EXCEPT !.did.push = @ + 1], k, key, t)

\* caller p, in state s, calls rateLimiter.waitIfNeeded()
waitIfNeeded(p, s) ==
    LET kept == Retained(requests, now)
        l == Locals(kept, now)
    IN /\ requests' = IF MustWait(kept, now) THEN kept ELSE Append(kept, Stamp(l))
       /\ released' = IF MustWait(kept, now) THEN released
                      ELSE Append(released, ReleaseEntry(l, now))
       /\ task' = [task EXCEPT ![p] = EnterWait(s, kind[p], requests, apiKey, now)]

\* caller p, in state s, calls analyzeTranscriptWithAI (lines 34-42)
analyzeTranscriptWithAI(p, s) ==
    IF KeyMissing(apiKey)
    THEN /\ task' = [task EXCEPT ![p] = AIReturned(s, kind[p], NoReply, Null, apiKey, now)]
         /\ UNCHANGED <<requests, released>>
    ELSE waitIfNeeded(p, [s EXCEPT !.did.wait = @ + 1])

\* ------------------------------------------------------------------------
\* Actions
\* ------------------------------------------------------------------------
\* a caller of kind "limiter" calls waitIfNeeded
Call(p) ==
    /\ kind[p] = "limiter"
    /\ task[p].pc = "idle"
    /\ budget > 0
    /\ budget' = budget - 1
    /\ waitIfNeeded(p, task[p])
    /\ UNCHANGED <<now, ticks, apiKey, kind>>

\* mutant: on waking the call starts over from line 15, reading the clock and
\* checking the window again
TimerResumeRechecks(p) ==
    /\ task[p].pc = "suspended"
    /\ TimerDue(task[p].timer, now)
    /\ waitIfNeeded(p, task[p])
    /\ UNCHANGED <<now, ticks, budget, apiKey, kind>>

\* line 24 resolves, line 28 runs and waitIfNeeded returns to its caller
TimerResume(p) ==
    /\ task[p].pc = "suspended"
    /\ TimerDue(task[p].timer, now)
    /\ requests' = Append(requests, Stamp(task[p].lim))
    /\ released' = Append(released, ReleaseEntry(task[p].lim, now))
    /\ task' = [task EXCEPT ![p] =
                  Continue([task[p] EXCEPT !.did.push = @ + 1], kind[p], apiKey, now)]
    /\ UNCHANGED <<now, ticks, budget, apiKey, kind>>

\* a direct caller (batchAnalyzeWithAI, line 148) calls analyzeTranscriptWithAI
ScoreOne(p) ==
    /\ kind[p] = "scoreOne"
    /\ task[p].pc = "idle"
    /\ budget > 0
    /\ budget' = budget - 1
    /\ \E text \in Transcripts :
         analyzeTranscriptWithAI(p, [task[p] EXCEPT !.req = Body(TRUE, Str(text), TRUE)])
    /\ UNCHANGED <<now, ticks, apiKey, kind>>

\* POST from line 426 to its first suspension (or to its response)
POST(p) ==
    /\ kind[p] = "route"
    /\ task[p].pc = "idle"
    /\ budget > 0
    /\ budget' = budget - 1
    /\ \E body \in Bodies :
         LET s == [task[p] EXCEPT !.req = body]
             s1 == [s EXCEPT !.actualMethod = InitialMethod]
         IN IF ~body.parses
            THEN /\ task' = [task EXCEPT ![p] =
                       [s EXCEPT !.response = ErrorResponse(500, "SyntaxError"),
                                 !.pc = "done"]]
                 /\ UNCHANGED <<requests, released>>
            ELSE IF ~ValidTranscript(body.transcript)
            THEN /\ task' = [task EXCEPT ![p] =
                       [s EXCEPT !.response = ErrorResponse(400, "No transcript provided"),
                                 !.pc = "done"]]
                 /\ UNCHANGED <<requests, released>>
            ELSE IF WantsAI(body, apiKey)
            THEN analyzeTranscriptWithAI(p, s1)
            ELSE /\ task' = [task EXCEPT ![p] = StartLocal(s1, now)]
                 /\ UNCHANGED <<requests, released>>
    /\ UNCHANGED <<now, ticks, apiKey, kind>>

\* fetch settles (line 66) with a reply of R and analyzeTranscriptWithAI runs to
\* its return
FetchSettlesFrom(p, R) ==
    /\ task[p].pc = "fetching"
    /\ \E r \in R :
         task' = [task EXCEPT ![p] =
                    AIReturned(task[p], kind[p], r, AfterFetch(r), apiKey, now)]
    /\ UNCHANGED <<now, ticks, requests, released, budget, apiKey, kind>>

FetchSettles(p) == FetchSettlesFrom(p, Replies)

FetchSettlesJson(p) == FetchSettlesFrom(p, JsonReplies)

\* a direct caller calls analyzeTranscript on a text
Score(p) ==
    /\ kind[p] = "scorer"
    /\ task[p].pc = "idle"
    /\ budget > 0
    /\ budget' = budget - 1
    /\ \E text \in ScoreTexts :
         task' = [task EXCEPT ![p] =
                    StartLocal([task[p] EXCEPT !.req = Body(TRUE, Str(text), FALSE)], now)]
    /\ UNCHANGED <<now, ticks, requests, released, apiKey, kind>>

\* a direct caller calls analyzeQASection on a text and gets its result
AnalyzeQA(p) ==
    /\ kind[p] = "qa"
    /\ task[p].pc = "idle"
    /\ budget > 0
    /\ budget' = budget - 1
    /\ \E text \in QATexts :
         task' = [task EXCEPT ![p] =
                    [@ EXCEPT !.req = Body(TRUE, Str(text), FALSE),
                              !.analysis = Val(analyzeQASection(text)),
                              !.producer = "qa",
                              !.pc = "done"]]
    /\ UNCHANGED <<now, ticks, requests, released, apiKey, kind>>

\* analyzeTranscript's timer resolves (analyzer.ts line 8), it returns, and POST
\* runs lines 459-482 (a direct caller keeps the result)
LocalDone(p) ==
    /\ task[p].pc = "sleeping"
    /\ TimerDue(task[p].timer, now)
    /\ LET s == task[p]
           ret == analyzeTranscript(s.req.transcript)
           s1 == [s EXCEPT !.analysis = ret,
                           !.producer = IF ret.t = "value" THEN "local" ELSE "none",
                           !.pc = "done"]
       IN task' = [task EXCEPT ![p] =
                     IF kind[p] = "scorer" THEN s1
                     ELSE [s1 EXCEPT !.actualMethod = MethodAfterLocal,
                                     !.response = Respond(ret, MethodAfterLocal, apiKey,
                                                          s.req.useAI)]]
    /\ UNCHANGED <<now, ticks, requests, released, budget, apiKey, kind>>

\* ------------------------------------------------------------------------
\* batchAnalyzeWithAI (analyzer/lib/ai-analyzer.ts, lines 142-158)
\* ------------------------------------------------------------------------
\* the quarter labels of the entries: any string is one
Quarters == {"Q1", "Q2", "__proto__"}

BatchContents == {<<"outlook">>, <<"decline", "AI">>}

Entry(quarter, content) == [quarter |-> quarter, content |-> content]

RECURSIVE SeqsUpTo(_, _)
SeqsUpTo(S, n) ==
    IF n = 0 THEN {<<>>}
    ELSE LET shorter == SeqsUpTo(S, n - 1)
         IN shorter \cup {Append(q, x) : q \in shorter, x \in S}

\* the entries of a batch: one per label (a list may hold an entry more than
\* once)
BatchEntries ==
    {e \in {Entry(q, c) : q \in Quarters, c \in BatchContents} :
        e.content = IF e.quarter = "Q2" THEN <<"decline", "AI">> ELSE <<"outlook">>}

\* the lists of transcripts a batch is called with
Batches == SeqsUpTo(BatchEntries, MaxBatch)

Called(i) == [e |-> "call", i |-> i]

Returned(i) == [e |-> "return", i |-> i]

\* mutant: the calls are started for all entries at once and not awaited in turn
NextEntryFanOut(s) ==
    LET last == Len(s.entries)
    IN [s EXCEPT !.index = last,
                 !.req = Body(TRUE, Str(s.entries[last].content), TRUE),
                 !.ai = NoAI, !.lim = NoCall, !.did = Nothing,
                 !.log = @ \o [j \in 1..(last - s.index) |-> Called(s.index + j)]]

\* lines 147-148: the loop takes the next entry and calls
\* analyzeTranscriptWithAI(content)
NextEntry(s) ==
    LET i == s.index + 1
    IN [s EXCEPT !.index = i,
                 !.req = Body(TRUE, Str(s.entries[i].content), TRUE),
                 !.ai = NoAI, !.lim = NoCall, !.did = Nothing,
                 !.log = Append(@, Called(i))]

\* line 150: results[quarter] = analysis, analysis being an object. results
\* has no own property "__proto__", so for that key the assignment runs the
\* setter inherited from Object.prototype, which makes analysis the prototype
\* of results and creates no property; for any other key it creates or
\* overwrites the own property.
Put(results, quarter, analysis) ==
    IF quarter = "__proto__"
    THEN [results EXCEPT !.proto = analysis]
    ELSE [results EXCEPT !.own = [q \in DOMAIN @ \cup {quarter} |->
                                     IF q = quarter THEN analysis ELSE @[q]]]

\* lines 148-154: the call for the entry at hand returns ret
Store(s, r, ret) ==
    [s EXCEPT !.ai = [called |-> TRUE, reply |-> r, ret |-> ret],
              !.log = Append(@, Returned(s.index)),
              !.outcomes = Append(@, ret),
              !.results = IF ret.t = "value"
                          THEN Put(@, s.entries[s.index].quarter, ret)
                          ELSE @]

\* lines 147-154 without a credential: each call returns null at once
RECURSIVE SkipAll(_)
SkipAll(s) ==
    IF s.index >= Len(s.entries) THEN s
    ELSE SkipAll(Store(NextEntry(s), NoReply, Null))

\* the loop of lines 147-155 from its head, in state s, up to the next
\* suspension or to the return of line 157
BatchContinue(p, s) ==
    IF KeyMissing(apiKey) \/ s.index >= Len(s.entries)
    THEN /\ task' = [task EXCEPT ![p] = [SkipAll(s) EXCEPT !.pc = "done"]]
         /\ UNCHANGED <<requests, released>>
    ELSE analyzeTranscriptWithAI(p, NextEntry(s))

\* batchAnalyzeWithAI is called with a list of transcripts, one of lists
BatchOf(p, lists) ==
    /\ kind[p] = "batch"
    /\ task[p].pc = "idle"
    /\ budget > 0
    /\ budget' = budget - 1
    /\ \E entries \in lists :
         BatchContinue(p, [task[p] EXCEPT !.entries = entries])
    /\ UNCHANGED <<now, ticks, apiKey, kind>>

Batch(p) == BatchOf(p, Batches)

\* fetch settles for the entry at hand, analyzeTranscriptWithAI returns and the
\* loop goes on
BatchFetchSettles(p) ==
    /\ kind[p] = "batch"
    /\ task[p].pc = "fetching"
    /\ \E r \in Replies : BatchContinue(p, Store(task[p], r, AfterFetch(r)))
    /\ UNCHANGED <<now, ticks, budget, apiKey, kind>>

\* ------------------------------------------------------------------------
\* The dashboard's historicalData (analyzer/components/Dashboard.tsx)
\* ------------------------------------------------------------------------
\* the analyses a successful response of the analysis route may carry
DashboardAnalyses == {analyzeTranscript(Str(c)) : c \in BatchContents}

\* line 187: prev => ({ ...prev, [quarter]: data.analysis }). The new object
\* is an object literal; the spread copies the own properties of prev and the
\* computed key defines an own property, whatever the key
setHistoricalData(prev, quarter, analysis) ==
    [own |-> [q \in DOMAIN prev.own \cup {quarter} |->
                 IF q = quarter THEN analysis ELSE prev.own[q]],
     proto |-> ObjectPrototype]

\* lines 175-196: the dashboard's analyzeTranscript(text, quarter) from the
\* response of the analysis route on: a response with success stores its
\* analysis under the quarter, any other response stores nothing
DashboardAnalyze(p) ==
    /\ kind[p] = "dashboard"
    /\ task[p].pc = "idle"
    /\ budget > 0
    /\ budget' = budget - 1
    /\ \E quarter \in Quarters, c \in BatchContents, a \in DashboardAnalyses \cup {Null} :
         task' = [task EXCEPT ![p] =
                    [@ EXCEPT !.entries = Append(@, Entry(quarter, c)),
                              !.outcomes = Append(@, a),
                              !.results = IF a.t = "value"
                                          THEN setHistoricalData(@, quarter, a)
                                          ELSE @]]
    /\ UNCHANGED <<now, ticks, requests, released, apiKey, kind>>

\* ------------------------------------------------------------------------
\* compareQuartersWithAI (analyzer/lib/ai-analyzer.ts, lines 161-206)
\* ------------------------------------------------------------------------
\* line 168
NotEnoughData ==
    [trend |-> "stable", insights |-> <<"Not enough data for AI comparison">>]

\* line 205
ComparisonUnavailable ==
    [trend |-> "stable", insights |-> <<"AI comparison unavailable">>]

\* the JSON object the prompt of lines 174-179 asks for
Comparison(trend, insights) == [trend |-> trend, insights |-> insights]

\* replies whose text holds a comparison: one as asked for, and one whose
\* trend is none of the three
ComparisonReplies ==
    { Reply("resolves", TRUE, TRUE, TRUE,
            <<Object(Comparison("improving", <<"margins up", "guidance raised">>))>>),
      Reply("resolves", TRUE, TRUE, TRUE,
            <<Prose, Object(Comparison("volatile", <<"mixed signals">>)), Prose>>) }

\* mutant: one entry is enough
NotComparableIfEmpty(key, transcripts) == KeyMissing(key) \/ Len(transcripts) < 1

\* line 167: !GEMINI_API_KEY || transcripts.length < 2
NotComparable(key, transcripts) == KeyMissing(key) \/ Len(transcripts) < 2

\* lines 183-200, the try block from the reply on: an exception, a return of
\* the parsed object, or (Null) the end of the block without a return
CompareTry(r) ==
    IF r.net = "rejects" THEN Raise("TypeError")
    ELSE IF ~r.ok THEN Null
    ELSE IF ~r.json THEN Raise("SyntaxError")
    ELSE IF ~r.hasText \/ ~HasJsonMatch(r.text) THEN Null
    ELSE JsonParse(JsonMatch(r.text))

\* mutant: the catch passes the exception on
CompareCatchRethrows(o) == o

\* lines 201-203: the catch logs the exception and goes on after the try
CompareCatch(o) == IF o.t = "raise" THEN Null ELSE o

\* lines 183-205 from the reply on
AfterCompareFetch(r) ==
    LET o == CompareCatch(CompareTry(r))
    IN IF o.t = "null" THEN Val(ComparisonUnavailable) ELSE o

\* compareQuartersWithAI is called with a list of transcripts, one of lists
CompareOf(p, lists) ==
    /\ kind[p] = "compare"
    /\ task[p].pc = "idle"
    /\ budget > 0
    /\ budget' = budget - 1
    /\ \E entries \in lists :
         LET s == [task[p] EXCEPT !.entries = entries]
         IN IF NotComparable(apiKey, entries)
            THEN /\ task' = [task EXCEPT ![p] =
                       [s EXCEPT !.analysis = Val(NotEnoughData), !.pc = "done"]]
                 /\ UNCHANGED <<requests, released>>
            ELSE waitIfNeeded(p, [s EXCEPT !.did.wait = @ + 1])
    /\ UNCHANGED <<now, ticks, apiKey, kind>>

Compare(p) == CompareOf(p, Batches)

\* fetch settles (line 183) and compareQuartersWithAI runs to its return
CompareFetchSettles(p) ==
    /\ kind[p] = "compare"
    /\ task[p].pc = "fetching"
    /\ \E r \in Replies \cup ComparisonReplies :
         task' = [task EXCEPT ![p] =
                    [@ EXCEPT !.ai = [called |-> TRUE, reply |-> r,
                                      ret |-> AfterCompareFetch(r)],
                              !.analysis = AfterCompareFetch(r),
                              !.pc = "done"]]
    /\ UNCHANGED <<now, ticks, requests, released, budget, apiKey, kind>>

\* ------------------------------------------------------------------------
\* The transcripts route, GET (unnamed/part_000, lines 1-412)
\* ------------------------------------------------------------------------
\* an item of a listing as the route sees it: whether reading its title
\* raises (a null item, a title that is no string), whether the title passes
\* the filter of lines 50-58, the quarter lines 226-241 extract from the title
\* ("" when none), and whether it has a slug
Item(raises, earnings, quarter, slug) ==
    [raises |-> raises, earnings |-> earnings, quarter |-> quarter, slug |-> slug]

Items ==
    {Item(FALSE, TRUE, "Q3 2024", TRUE), Item(FALSE, TRUE, "Q4 2023", FALSE),
     Item(FALSE, TRUE, "", FALSE), Item(FALSE, FALSE, "", FALSE),
     Item(TRUE, FALSE, "", FALSE)}

\* the data arrays of a listing: the empty array, one item, an earnings item
\* followed by another item, and longer ones that hold one earnings item over
\* and over
ItemLists ==
    SeqsUpTo(Items, 1)
        \cup {<<Item(FALSE, TRUE, "Q3 2024", TRUE), it>> : it \in Items}
        \cup {[i \in 1..n |-> it] : n \in 3..MaxItems, it \in {x \in Items : x.earnings}}

\* what fetch and the response of a listing endpoint hold
ListReply(net, ok, json, isArray, data) ==
    [net |-> net, ok |-> ok, json |-> json, isArray |-> isArray, data |-> data]

ListReplies ==
    {ListReply("rejects", FALSE, FALSE, FALSE, <<>>),
     ListReply("resolves", FALSE, FALSE, FALSE, <<>>),
     ListReply("resolves", TRUE, FALSE, FALSE, <<>>),
     ListReply("resolves", TRUE, TRUE, FALSE, <<>>)}
        \cup {ListReply("resolves", TRUE, TRUE, TRUE, data) : data \in ItemLists}

\* lines 33-69: what one endpoint yields, <<>> when the loop goes on: the
\* catch of line 67 takes a rejected fetch, a body that is no JSON, and an
\* item whose title cannot be read
Earnings(r) ==
    IF r.net = "rejects" \/ ~r.ok \/ ~r.json \/ ~r.isArray THEN <<>>
    ELSE IF \E i \in DOMAIN r.data : r.data[i].raises THEN <<>>
    ELSE SelectSeq(r.data, LAMBDA item : item.earnings)

\* lines 83-104: three attempts, and one more for an item with a slug
Attempts(item) == IF item.slug THEN 4 ELSE 3

\* what an attempt yields (lines 107-133): nothing (a failed fetch, a response
\* without content, an exception), the empty string (content that is empty
\* once cleaned), or a text
ContentReplies == {"nothing", "empty", "text"}

\* lines 281-320: the mock content of a quarter, that of the first mock
\* transcript for any other label
getMockTranscriptContent(quarter) ==
    IF quarter \in {"Q3 2024", "Q2 2024", "Q1 2024"}
    THEN [mockContents |-> quarter]
    ELSE [mockContents |-> "getMockTranscripts()[0]"]

\* lines 323-412
getMockTranscripts ==
    [i \in 1..4 |->
        [quarter |-> <<"Q3 2024", "Q2 2024", "Q1 2024", "Q4 2023">>[i],
         content |-> [mockTranscript |-> i], source |-> "mock", success |-> TRUE]]

\* lines 189-194, 205-210, 271-276
MockResponse(message) ==
    [status |-> 200, success |-> TRUE, source |-> "mock", message |-> message,
     transcripts |-> getMockTranscripts]

\* lines 261-267
HybridResponse(transcripts) ==
    [status |-> 200, success |-> TRUE, source |-> "hybrid", message |-> "",
     transcripts |-> transcripts]

\* mutant: the transcripts of an empty list are built and returned
EmptyListFallsThrough(s) ==
    IF s.list = <<>>
    THEN [s EXCEPT !.response = HybridResponse(<<>>), !.pc = "done"]
    ELSE [s EXCEPT !.index = 1, !.step = 1, !.pc = "content"]

\* lines 203-220: getTranscriptList has returned s.list
Listed(s) ==
    IF s.list = <<>>
    THEN [s EXCEPT !.response = MockResponse("API returned no transcripts, using mock data"),
                   !.pc = "done"]
    ELSE [s EXCEPT !.index = 1, !.step = 1, !.pc = "content"]

\* the empty string as a transcript's content
EmptyContent == [fetched |-> 0]

\* mutant: the content is tested against null, so that content that is empty
\* once cleaned is kept
FetchedUnlessNull(s, content, t) ==
    LET i == s.index
        quarter == s.list[i].quarter
        has == content # "nothing"
        s1 == [s EXCEPT !.entries = Append(@,
                  [quarter |-> IF quarter # "" THEN quarter ELSE <<"Quarter", i>>,
                   content |-> IF content = "text" THEN [fetched |-> i]
                               ELSE IF has THEN EmptyContent
                               ELSE getMockTranscriptContent(quarter),
                   source |-> IF has THEN "Seeking Alpha" ELSE "mock",
                   success |-> has]),
                        !.outcomes = Append(@, content)]
    IN IF i < Min(Len(s.list), maxFetch)
       THEN [s1 EXCEPT !.pc = "sleeping", !.timer = t + fetchPause]
       ELSE [s1 EXCEPT !.response = HybridResponse(s1.entries), !.pc = "done"]

\* lines 244-267: getTranscriptContent has returned content for the item at
\* hand: the transcript is pushed, and the loop pauses before the next item or
\* the route answers. (outcomes keeps what getTranscriptContent came to for
\* each item.)
Fetched(s, content, t) ==
    LET i == s.index
        quarter == s.list[i].quarter
        has == content = "text"
        s1 == [s EXCEPT !.entries = Append(@,
                  [quarter |-> IF quarter # "" THEN quarter ELSE <<"Quarter", i>>,
                   content |-> IF has THEN [fetched |-> i]
                               ELSE getMockTranscriptContent(quarter),
                   source |-> IF has THEN "Seeking Alpha" ELSE "mock",
                   success |-> has]),
                        !.outcomes = Append(@, content)]
    IN IF i < Min(Len(s.list), maxFetch)
       THEN [s1 EXCEPT !.pc = "sleeping", !.timer = t + fetchPause]
       ELSE [s1 EXCEPT !.response = HybridResponse(s1.entries), !.pc = "done"]

\* GET from line 185 to its first suspension (or to its response), under a
\* value of RAPID_API_KEY
GET(p) ==
    /\ kind[p] = "transcripts"
    /\ task[p].pc = "idle"
    /\ budget > 0
    /\ budget' = budget - 1
    /\ \E key \in {"", "key"} :
         task' = [task EXCEPT ![p] =
                    IF key = ""
                    THEN [@ EXCEPT !.response =
                                      MockResponse("No API key configured, using mock data"),
                                   !.pc = "done"]
                    ELSE [@ EXCEPT !.pc = "listing", !.step = 1]]
    /\ UNCHANGED <<now, ticks, requests, released, apiKey, kind>>

\* the fetch of a listing endpoint settles (line 40): getTranscriptList
\* returns what it found, goes on to the next endpoint, or returns [] after
\* the last
ListSettles(p) ==
    /\ kind[p] = "transcripts"
    /\ task[p].pc = "listing"
    /\ \E r \in ListReplies :
         LET s == [task[p] EXCEPT !.log = Append(@, r)]
         IN task' = [task EXCEPT ![p] =
                       IF Earnings(r) # <<>> THEN Listed([s EXCEPT !.list = Earnings(r)])
                       ELSE IF s.step < endpoints THEN [s EXCEPT !.step = @ + 1]
                       ELSE Listed([s EXCEPT !.list = <<>>])]
    /\ UNCHANGED <<now, ticks, requests, released, budget, apiKey, kind>>

\* the fetch of an attempt settles (line 113): getTranscriptContent returns
\* the content, goes on to the next attempt, or returns null after the last
ContentSettles(p) ==
    /\ kind[p] = "transcripts"
    /\ task[p].pc = "content"
    /\ \E r \in ContentReplies :
         task' = [task EXCEPT ![p] =
                    IF r = "nothing" /\ @.step < Attempts(@.list[@.index])
                    THEN [@ EXCEPT !.step = @ + 1]
                    ELSE Fetched(@, r, now)]
    /\ UNCHANGED <<now, ticks, requests, released, budget, apiKey, kind>>

\* the pause of line 257 is over: the loop takes the next item
PauseDone(p) ==
    /\ kind[p] = "transcripts"
    /\ task[p].pc = "sleeping"
    /\ TimerDue(task[p].timer, now)
    /\ task' = [task EXCEPT ![p] =
                  [@ EXCEPT !.index = @ + 1, !.step = 1, !.pc = "content"]]
    /\ UNCHANGED <<now, ticks, requests, released, budget, apiKey, kind>>

\* the caller is done with this request and ready for the next
Recycle(p) ==
    /\ task[p].pc = "done"
    /\ task' = [task EXCEPT ![p] = InitialTask]
    /\ UNCHANGED <<now, ticks, requests, released, budget, apiKey, kind>>

\* ------------------------------------------------------------------------
\* The clock
\* ------------------------------------------------------------------------
Forget(log, t) == SelectSeq(log, LAMBDA e : t - e.at < timeWindow)

Pending ==
    {p \in Procs : task[p].pc \in {"suspended", "sleeping"} /\ task[p].timer > now}

\* time passes
Tick ==
    /\ ticks > 0
    /\ \E d \in TickSteps :
         /\ now' = now + d
         /\ released' = Forget(released, now + d)
    /\ ticks' = ticks - 1
    /\ UNCHANGED <<requests, budget, apiKey, kind, task>>

\* time passes until the next timer is due
TimerAdvance ==
    /\ Pending # {}
    /\ \E p \in Pending :
         /\ \A q \in Pending : task[p].timer <= task[q].timer
         /\ now' = task[p].timer
         /\ released' = Forget(released, task[p].timer)
    /\ UNCHANGED <<ticks, requests, budget, apiKey, kind, task>>

\* ------------------------------------------------------------------------
\* Specifications
\* ------------------------------------------------------------------------
\* n callers at time 0, the limiter holding the stamps of `burst` calls made
\* at time 0 (none: the state after the modules are loaded)
Start(n, calls, steps, burst) ==
    /\ now = 0
    /\ ticks = steps
    /\ requests = [i \in 1..burst |-> 0]
    /\ released = [i \in 1..burst |-> ReleaseEntry(Locals(<<>>, 0), 0)]
    /\ budget = calls
    /\ task = [p \in 1..n |-> InitialTask]

LimiterInit(n, calls, steps) ==
    /\ Start(n, calls, steps, 0)
    /\ apiKey = ""
    /\ kind = [p \in 1..n |-> "limiter"]

LimiterNext ==
    \/ Tick
    \/ TimerAdvance
    \/ \E p \in Procs : Call(p)
    \/ \E p \in Procs : TimerResume(p)

\* one caller, each call awaited before the next starts
InitSeq == LimiterInit(1, MaxSeqCalls, MaxSeqTicks)

SpecSeq == InitSeq /\ [][LimiterNext]_vars

\* several callers share the limiter
InitConc == LimiterInit(NumCallers, MaxCalls, MaxTicks)

SpecConc == InitConc /\ [][LimiterNext]_vars

\* timers fire once due, and time does not stop short of a pending timer
Fairness ==
    /\ WF_vars(TimerAdvance)
    /\ \A p \in 1..NumCallers : WF_vars(TimerResume(p))

FairSpecConc == SpecConc /\ Fairness

\* the analysis route, or a direct caller of the remote scorer, serving one
\* request after the other, with or without a credential. The limiter is
\* empty, or holds what a burst of maxRequests calls at time 0 leaves in it
\* (SpecSeq reaches that state from the empty limiter).
Init ==
    /\ \E burst \in {0, maxRequests} : Start(1, MaxPosts, MaxRouteTicks, burst)
    /\ apiKey \in {"", "key"}
    /\ kind \in [1..1 -> {"route", "scoreOne"}]

Next ==
    \/ Tick
    \/ TimerAdvance
    \/ \E p \in Procs : POST(p)
    \/ \E p \in Procs : ScoreOne(p)
    \/ \E p \in Procs : TimerResume(p)
    \/ \E p \in Procs : FetchSettles(p)
    \/ \E p \in Procs : LocalDone(p)
    \/ \E p \in Procs : Recycle(p)

Spec == Init /\ [][Next]_vars

\* the two scorers, each called directly: the keyword scorer on the texts of
\* ScoreTexts, the remote scorer with a credential and the replies of JsonReplies
InitScorers ==
    /\ Start(1, MaxScoreCalls, 0, 0)
    /\ apiKey = "key"
    /\ kind \in [1..1 -> {"scorer", "scoreOne"}]

NextScorers ==
    \/ TimerAdvance
    \/ \E p \in Procs : Score(p)
    \/ \E p \in Procs : LocalDone(p)
    \/ \E p \in Procs : ScoreOne(p)
    \/ \E p \in Procs : FetchSettlesJson(p)
    \/ \E p \in Procs : Recycle(p)

SpecScorers == InitScorers /\ [][NextScorers]_vars

\* one caller of analyzeQASection, one call after the other
InitQA ==
    /\ Start(1, MaxQACalls, 0, 0)
    /\ apiKey = ""
    /\ kind = [p \in 1..1 |-> "qa"]

NextQA ==
    \/ \E p \in Procs : AnalyzeQA(p)
    \/ \E p \in Procs : Recycle(p)

SpecQA == InitQA /\ [][NextQA]_vars

\* one caller of batchAnalyzeWithAI, with or without a credential, the limiter
\* empty or holding the stamps of a burst; or one dashboard, which stores the
\* analyses it receives in its historicalData
InitBatch ==
    /\ \E k \in {"batch", "dashboard"}, burst \in {0, maxRequests} :
         /\ Start(1, IF k = "batch" THEN MaxBatches ELSE MaxStores, 0, burst)
         /\ kind = [p \in 1..1 |-> k]
    /\ apiKey \in {"", "key"}

NextBatch ==
    \/ TimerAdvance
    \/ \E p \in Procs : Batch(p)
    \/ \E p \in Procs : DashboardAnalyze(p)
    \/ \E p \in Procs : TimerResume(p)
    \/ \E p \in Procs : BatchFetchSettles(p)
    \/ \E p \in Procs : Recycle(p)

SpecBatch == InitBatch /\ [][NextBatch]_vars

\* one caller of compareQuartersWithAI, with or without a credential, the
\* limiter empty or holding the stamps of a burst
InitCompare ==
    /\ \E burst \in {0, maxRequests} : Start(1, MaxCompares, MaxCompareTicks, burst)
    /\ apiKey \in {"", "key"}
    /\ kind = [p \in 1..1 |-> "compare"]

NextCompare ==
    \/ Tick
    \/ TimerAdvance
    \/ \E p \in Procs : Compare(p)
    \/ \E p \in Procs : TimerResume(p)
    \/ \E p \in Procs : CompareFetchSettles(p)
    \/ \E p \in Procs : Recycle(p)

SpecCompare == InitCompare /\ [][NextCompare]_vars

\* the lists a comparison and a batch that run side by side are called with
SharedLists == {<<Entry("Q1", <<"outlook">>), Entry("Q2", <<"decline", "AI">>)>>}

\* two clients of the shared rateLimiter in one process: two requests at the
\* analysis route, or a comparison beside a batch. Nothing but the event loop
\* orders their steps.
InitShared ==
    /\ \E burst \in {0, maxRequests} : Start(2, MaxSharedCalls, 0, burst)
    /\ apiKey = "key"
    /\ kind \in {<<"route", "route">>, <<"compare", "batch">>}

NextShared ==
    \/ TimerAdvance
    \/ \E p \in Procs : POST(p)
    \/ \E p \in Procs : CompareOf(p, SharedLists)
    \/ \E p \in Procs : BatchOf(p, SharedLists)
    \/ \E p \in Procs : TimerResume(p)
    \/ \E p \in Procs : kind[p] = "route" /\ FetchSettles(p)
    \/ \E p \in Procs : CompareFetchSettles(p)
    \/ \E p \in Procs : BatchFetchSettles(p)
    \/ \E p \in Procs : LocalDone(p)
    \/ \E p \in Procs : Recycle(p)

SpecShared == InitShared /\ [][NextShared]_vars

\* the transcripts route serving one request after the other
InitTranscripts ==
    /\ Start(1, MaxGets, 0, 0)
    /\ apiKey = ""
    /\ kind = [p \in 1..1 |-> "transcripts"]

NextTranscripts ==
    \/ TimerAdvance
    \/ \E p \in Procs : GET(p)
    \/ \E p \in Procs : ListSettles(p)
    \/ \E p \in Procs : ContentSettles(p)
    \/ \E p \in Procs : PauseDone(p)
    \/ \E p \in Procs : Recycle(p)

SpecTranscripts == InitTranscripts /\ [][NextTranscripts]_vars

\* ------------------------------------------------------------------------
\* Properties of the rate limiter
\* ------------------------------------------------------------------------
InWindow(t) == now - t < timeWindow

ReleasesInWindow == {i \in DOMAIN released : InWindow(released[i].at)}

StampsInWindow == {i \in DOMAIN requests : InWindow(requests[i])}

\* the stamps of requests that lie in the timeWindow-long interval starting at stamp i
StampsFrom(i) ==
    {j \in DOMAIN requests :
        requests[i] <= requests[j] /\ requests[j] < requests[i] + timeWindow}

\* C1: with calls made one at a time, at every release at most maxRequests
\* callers were released within the trailing timeWindow, the released one
\* included.  (Releases only leave the trailing window as time passes, so the
\* count is at its largest right at a release.)
C1_AtMostMaxReleasesPerWindow == Cardinality(ReleasesInWindow) <= maxRequests

\* C2: with concurrent callers, at a release requests holds at most maxRequests
\* stamps inside the trailing timeWindow, and never maxRequests + 1 stamps that
\* all lie within one timeWindow-long interval.
C2_AtMostMaxStampsPerWindow ==
    /\ Cardinality(StampsInWindow) <= maxRequests
    /\ \A i \in DOMAIN requests : Cardinality(StampsFrom(i)) <= maxRequests

\* C3: a caller that entered with maxRequests or more retained stamps is not
\* released before the first retained stamp plus timeWindow.
C3_NotReleasedBeforeOldestExpires ==
    \A i \in DOMAIN released :
        released[i].full => released[i].at >= released[i].oldest + timeWindow

\* the 16th of 16 rapid calls has been released: it entered at the time of the
\* 1st call's stamp with the window full, and waited
C3_Witness ==
    /\ Len(requests) = maxRequests + 1
    /\ \E i \in DOMAIN released :
         /\ released[i].full /\ released[i].waited
         /\ released[i].oldest = 0 /\ released[i].entered = 0
         /\ released[i].at = timeWindow

\* C4: every waitIfNeeded call that suspends is eventually released (a call that
\* does not suspend returns within its own step).
C4_EveryCallCompletes ==
    \A p \in 1..NumCallers : (task[p].pc = "suspended") ~> (task[p].pc = "idle")

\* two callers were suspended at once and both have been released
C4_Witness ==
    /\ \A p \in Procs : task[p].pc = "idle"
    /\ Cardinality({i \in DOMAIN released : released[i].waited}) >= 2


\* ------------------------------------------------------------------------
\* Properties of the analysis route and of the remote scorer
\* ------------------------------------------------------------------------
Routes == {p \in Procs : kind[p] = "route"}

Answered(p) == task[p].pc = "done"

\* the request of p passed the check of line 430
ValidRequest(p) == task[p].req.parses /\ ValidTranscript(task[p].req.transcript)

\* C5: a successful response reports 'gemini-ai' exactly when the remote scorer
\* produced the analysis it carries and 'keyword-analysis' exactly when the
\* keyword scorer did, whatever useAI asked for.
C5_MethodIsTheScorerThatRan ==
    \A p \in Routes :
        (Answered(p) /\ task[p].response.success) =>
            /\ task[p].response.method = "gemini-ai" <=> task[p].producer = "remote"
            /\ task[p].response.method = "keyword-analysis" <=> task[p].producer = "local"
            /\ task[p].response.aiPowered <=> task[p].producer = "remote"

\* AI was requested, the remote scorer was tried and failed, and the response
\* says the keyword scorer ran
C5_Witness ==
    \E p \in Routes :
        /\ Answered(p) /\ task[p].response.success
        /\ task[p].req.useAI /\ task[p].response.userRequestedAI
        /\ task[p].ai.called
        /\ task[p].response.method = "keyword-analysis"
        /\ task[p].producer = "local"

\* the remote scorer was tried for the request of p and returned null
RemoteFailed(p) ==
    /\ task[p].req.useAI
    /\ apiKey # ""
    /\ task[p].ai.called
    /\ task[p].ai.ret = Null

\* C6: when useAI is set, a credential is configured and the remote scorer
\* returns null, the route answers with success, tagged 'keyword-analysis', and
\* the analysis is what analyzeTranscript gives on the same transcript.
C6_FallbackEqualsLocalScorer ==
    \A p \in Routes :
        (Answered(p) /\ RemoteFailed(p)) =>
            /\ task[p].response.success
            /\ task[p].response.method = "keyword-analysis"
            /\ task[p].response.analysis = analyzeTranscript(task[p].req.transcript)

\* a fallback after a non-success status, on a transcript with sentiment words
C6_Witness ==
    \E p \in Routes :
        /\ Answered(p) /\ RemoteFailed(p)
        /\ task[p].ai.reply.net = "resolves" /\ ~task[p].ai.reply.ok
        /\ task[p].req.transcript = Str(<<"Strong", "growth", "cloud">>)
        /\ task[p].response.analysis.t = "value"
        /\ task[p].response.analysis.v.managementSentiment.score = Whole(100)

\* the request of p does not ask for AI, or no credential is configured
KeywordOnly(s) ==
    /\ s.pc # "idle"
    /\ s.req.parses /\ ValidTranscript(s.req.transcript)
    /\ (~s.req.useAI \/ apiKey = "")

\* C7: when useAI is false or no credential is configured, no step of the
\* request calls the remote scorer, sends a provider request or changes the
\* limiter's requests, and the request is answered with the keyword result.
C7_KeywordOnlyLeavesRemoteAlone ==
    [][\A p \in Routes :
          (KeywordOnly(task[p]') /\ task[p]' # task[p]) =>
              /\ requests' = requests
              /\ ~task[p]'.ai.called
              /\ task[p]'.did.wait = 0 /\ task[p]'.did.fetch = 0
              /\ (task[p]'.pc = "done" =>
                     /\ task[p]'.response.success
                     /\ task[p]'.response.method = "keyword-analysis"
                     /\ task[p]'.producer = "local")]_vars

\* a request with useAI set was answered by the keyword scorer for want of a
\* credential, with stamps in the limiter that it left alone
C7_Witness ==
    \E p \in Routes :
        /\ Answered(p) /\ KeywordOnly(task[p])
        /\ task[p].req.useAI /\ apiKey = ""
        /\ task[p].response.success
        /\ Len(requests) = maxRequests

\* a step of the request of p, or the step of the clock it waits for, is
\* possible (LocalDone is enabled once the timer it waits for is due)
CanProceed(p) ==
    IF task[p].pc = "fetching" THEN ENABLED FetchSettles(p)
    ELSE IF task[p].pc = "suspended" THEN ENABLED (TimerResume(p) \/ TimerAdvance)
    ELSE TimerDue(task[p].timer, now) \/ ENABLED TimerAdvance

\* C8: a request with a non-empty string transcript is answered with success
\* and an analysis, whatever useAI, the credential and the provider's reply
\* are: it is never stuck on the way, and 'Analysis failed' is never answered.
C8_ValidTranscriptIsAnalysed ==
    \A p \in Routes :
        /\ task[p].response.error # "Analysis failed"
        /\ ValidRequest(p) =>
              /\ Answered(p) =>
                    /\ task[p].response.success
                    /\ task[p].response.status = 200
                    /\ task[p].response.analysis.t = "value"
              /\ task[p].pc \in {"suspended", "fetching", "sleeping"} => CanProceed(p)

\* a request that waited for the limiter and whose provider call was rejected
\* has been answered with success
C8_Witness ==
    \E p \in Routes :
        /\ Answered(p) /\ ValidRequest(p)
        /\ task[p].lim.waited
        /\ task[p].ai.reply.net = "rejects"
        /\ task[p].response.success

\* the request of p carries no non-empty string transcript
NoTranscript(p) ==
    /\ task[p].pc # "idle"
    /\ ~(task[p].req.transcript.type = "string" /\ task[p].req.transcript.text # <<>>)

\* the request of p was not scored: no scorer was called, no limiter slot taken
NotScored(p) ==
    /\ task[p].did = Nothing
    /\ ~task[p].ai.called
    /\ task[p].analysis = Null

\* C9, as stated: every request whose transcript is missing, empty or no
\* string is answered 400 'No transcript provided' and is never scored.
C9_MissingTranscriptIs400 ==
    \A p \in Routes :
        NoTranscript(p) =>
            /\ Answered(p)
            /\ task[p].response = ErrorResponse(400, "No transcript provided")
            /\ NotScored(p)

\* C9, amended: a request whose body parses and destructures, and whose
\* transcript is missing, empty or no string, is answered 400 'No transcript
\* provided' at once; a body that does not parse or destructure is answered
\* 500 with the exception's message; neither is ever scored.
C9_InvalidTranscriptIsRejected ==
    \A p \in Routes :
        NoTranscript(p) =>
            /\ Answered(p)
            /\ ~task[p].response.success
            /\ task[p].response.status = IF task[p].req.parses THEN 400 ELSE 500
            /\ task[p].req.parses =>
                  task[p].response = ErrorResponse(400, "No transcript provided")
            /\ NotScored(p)

\* a truthy transcript that is no string was rejected although AI was asked for
\* and a credential is configured
C9_Witness ==
    \E p \in Routes :
        /\ Answered(p)
        /\ task[p].req = Body(TRUE, Other(TRUE), TRUE)
        /\ apiKey # ""
        /\ task[p].response.status = 400

\* the provider text holds exactly one well-formed JSON object and no other brace
SoleObject(text) ==
    /\ Cardinality({i \in DOMAIN text : text[i].k = "json"}) = 1
    /\ \A i \in DOMAIN text : text[i].k \in {"json", "prose"}

TheObject(text) == text[CHOOSE i \in DOMAIN text : text[i].k = "json"].v

\* the failure modes: no credential, a network exception, a non-success status,
\* a response without a text, a text without a JSON object or with malformed
\* JSON, a JSON object without managementSentiment
FailureMode(key, r) ==
    \/ key = ""
    \/ r.net # "resolves"
    \/ ~r.ok
    \/ ~r.json
    \/ ~r.hasText
    \/ ~SoleObject(r.text)
    \/ ~TheObject(r.text).hasMS

\* C10: analyzeTranscriptWithAI never raises, and in every failure mode it
\* returns null.
C10_RemoteScorerNeverThrows ==
    \A p \in Procs :
        task[p].ai.called =>
            /\ task[p].ai.ret.t \in {"null", "value"}
            /\ FailureMode(apiKey, task[p].ai.reply) => task[p].ai.ret = Null

\* a direct caller got null for a JSON object without managementSentiment
C10_Witness ==
    \E p \in Procs :
        /\ kind[p] = "scoreOne"
        /\ task[p].ai.called
        /\ task[p].ai.reply.text = <<Object(NoSentimentJson)>>
        /\ task[p].ai.ret = Null
        /\ task[p].analysis = Null


\* C11: without a credential, a call of analyzeTranscriptWithAI returns null
\* within the step that makes it: it does not call the limiter, sends no
\* provider request and leaves the limiter's requests as they were.
C11_NoCredentialReturnsNullAtOnce ==
    [][\A p \in Procs :
          (kind[p] = "scoreOne" /\ apiKey = "" /\ task[p].pc = "idle"
              /\ task[p]'.pc # "idle") =>
              /\ task[p]'.pc = "done"
              /\ task[p]'.ai.called
              /\ task[p]'.ai.ret = Null
              /\ task[p]'.did = Nothing
              /\ requests' = requests]_vars

\* a direct caller got null without a credential while the limiter held a
\* full window of stamps, which it still holds
C11_Witness ==
    \E p \in Procs :
        /\ kind[p] = "scoreOne" /\ apiKey = ""
        /\ task[p].pc = "done" /\ task[p].ai.called /\ task[p].ai.ret = Null
        /\ task[p].did = Nothing
        /\ Len(requests) = maxRequests

\* the counts of an invocation of analyzeTranscriptWithAI in state s
SlotAccounting(s) ==
    /\ s.pc = "suspended" => s.did.wait = 1 /\ s.did.push = 0 /\ s.did.fetch = 0
    /\ s.pc = "fetching" => s.did.wait = 1 /\ s.did.push = 1 /\ s.did.fetch = 1
    /\ s.ai.called => s.did.wait = 1 /\ s.did.push = 1 /\ s.did.fetch <= 1

\* C12: with a credential, an invocation of analyzeTranscriptWithAI calls
\* waitIfNeeded once and pushes one stamp, sends at most one provider request
\* and sends it only once the stamp is pushed; the step in which the request
\* settles, with a result or a failure, leaves the stamp in requests.
C12_OneSlotThenOneRequest ==
    [][\A p \in Procs :
          (kind[p] \in {"scoreOne", "route"} /\ apiKey # "") =>
              /\ SlotAccounting(task[p]')
              /\ (task[p].pc = "fetching" /\ task[p]'.pc # "fetching") =>
                    /\ requests' = requests
                    /\ \E i \in DOMAIN requests : requests[i] = Stamp(task[p].lim)]_vars

\* an invocation that waited for its slot and whose provider request was
\* rejected has returned: one stamp pushed, one request sent
C12_Witness ==
    \E p \in Procs :
        /\ kind[p] = "scoreOne" /\ apiKey # ""
        /\ task[p].pc = "done" /\ task[p].ai.called
        /\ task[p].lim.waited
        /\ task[p].ai.reply.net = "rejects"
        /\ task[p].did.push = 1 /\ task[p].did.fetch = 1
        /\ requests # <<>> /\ requests[Len(requests)] = Stamp(task[p].lim)


\* ------------------------------------------------------------------------
\* Properties of the results of the two scorers
\* ------------------------------------------------------------------------
\* twice the value of a number that is not NaN
Twice(x) == IF x.k = "int" THEN 2 * x.v ELSE 2 * x.v + 1

\* the remote scorer has returned for p after a reply whose text is one JSON
\* object with a managementSentiment
ParsedReply(p) ==
    /\ task[p].ai.called
    /\ ~FailureMode(apiKey, task[p].ai.reply)

ProviderJson(p) == TheObject(task[p].ai.reply.text)

\* the remote scorer has returned a result to p
RemoteResult(p) == task[p].ai.called /\ task[p].ai.ret.t = "value"

\* the keyword scorer has returned a result to p
LocalResult(p) == task[p].producer = "local" /\ task[p].analysis.t = "value"

\* C13: a provider JSON with a numeric score s is not rejected, and the score
\* returned is min(100, max(0, s)): 0 for s < 0, 100 for s > 100, s itself when
\* 0 <= s <= 100; clamping the returned score again gives the same score.
C13_NumericScoreIsClamped ==
    \A p \in Procs :
        (ParsedReply(p) /\ ProviderJson(p).score.k # "nan") =>
            /\ RemoteResult(p)
            /\ LET s == ProviderJson(p).score
                   r == task[p].ai.ret.v.managementSentiment.score
               IN /\ Twice(s) < 0 => r = Whole(0)
                  /\ Twice(s) > 200 => r = Whole(100)
                  /\ (0 <= Twice(s) /\ Twice(s) <= 200) => r = s
                  /\ Clamp(r) = r

\* a score beyond 100 came back as 100, with the label the provider gave
C13_Witness ==
    \E p \in Procs :
        /\ ParsedReply(p) /\ RemoteResult(p)
        /\ ProviderJson(p).score = Whole(100 + MaxOver)
        /\ task[p].ai.ret.v.managementSentiment.score = Whole(100)

\* C14: every result a scorer returns has a score that is an integer from 0
\* to 100.
C14_ScoreIsIntegerInRange ==
    \A p \in Procs :
        task[p].analysis.t = "value" =>
            LET sc == task[p].analysis.v.managementSentiment.score
            IN sc.k = "int" /\ 0 <= sc.v /\ sc.v <= 100

\* the label the thresholds give for an integer score
ThresholdLabel(v) ==
    IF v >= 65 THEN "positive" ELSE IF v >= 35 THEN "neutral" ELSE "negative"

\* C15: every result a scorer returns carries one of the three labels, and the
\* one the thresholds give for its score.
C15_LabelMatchesScore ==
    \A p \in Procs :
        task[p].analysis.t = "value" =>
            LET ms == task[p].analysis.v.managementSentiment
            IN /\ ms.label \in {"positive", "neutral", "negative"}
               /\ ms.score.k = "int" => ms.label = ThresholdLabel(ms.score.v)

\* C16: keyThemes has at most maxThemes entries; the keyword scorer's list is
\* never empty; the remote scorer's list is the first maxThemes entries of the
\* provider's list, and empty when the provider's keyThemes is no list.
C16_AtMostFiveThemes ==
    \A p \in Procs :
        task[p].analysis.t = "value" =>
            LET themes == task[p].analysis.v.keyThemes
            IN /\ Len(themes) <= 5
               /\ LocalResult(p) => Len(themes) >= 1
               /\ (RemoteResult(p) /\ ParsedReply(p)) =>
                     LET given == ProviderJson(p).keyThemes
                     IN IF ~ProviderJson(p).themesIsArray THEN themes = <<>>
                        ELSE /\ Len(themes) = IF Len(given) < 5 THEN Len(given) ELSE 5
                             /\ \A i \in DOMAIN themes : themes[i] = given[i]

\* a text with keywords of all six themes got the first five
C16_Witness ==
    \E p \in Procs :
        /\ LocalResult(p)
        /\ Len(DetectThemes(toLowerCase(task[p].req.transcript.text), Len(ThemeTable))) = 6
        /\ Len(task[p].analysis.v.keyThemes) = 5

\* the whole-word matches of the text p had scored
Positives(p) ==
    SumMatches(toLowerCase(task[p].req.transcript.text), positiveWords, Len(positiveWords))

Negatives(p) ==
    SumMatches(toLowerCase(task[p].req.transcript.text), negativeWords, Len(negativeWords))

\* C17: a text without a whole-word match of either word list gets score 50
\* and label neutral.
C17_NoMatchesScoresNeutral50 ==
    \A p \in Procs :
        (LocalResult(p) /\ Positives(p) = 0 /\ Negatives(p) = 0) =>
            /\ task[p].analysis.v.managementSentiment.score = Whole(50)
            /\ task[p].analysis.v.managementSentiment.label = "neutral"

\* C18: in every result of the keyword scorer the label is positive iff
\* score >= 65, neutral iff 35 <= score < 65, negative iff score < 35, and the
\* tone is confident iff score >= 70, cautious iff score <= 30, mixed otherwise,
\* the score being the one returned.
C18_LabelAndToneFollowFinalScore ==
    \A p \in Procs :
        LocalResult(p) =>
            LET a == task[p].analysis.v
                v == a.managementSentiment.score.v
                label == a.managementSentiment.label
            IN /\ label = "positive" <=> v >= 65
               /\ label = "neutral" <=> (35 <= v /\ v < 65)
               /\ label = "negative" <=> v < 35
               /\ a.overallTone = "confident" <=> v >= 70
               /\ a.overallTone = "cautious" <=> v <= 30
               /\ a.overallTone = "mixed" <=> (30 < v /\ v < 70)

\* a text whose ratio gives 60 and whose bonus lifts it to 70 is positive and
\* confident
C18_Witness ==
    \E p \in Procs :
        /\ LocalResult(p)
        /\ Positives(p) = 3 /\ Negatives(p) = 2
        /\ HasBonus(toLowerCase(task[p].req.transcript.text))
        /\ task[p].analysis.v.managementSentiment.score = Whole(70)
        /\ task[p].analysis.v.managementSentiment.label = "positive"
        /\ task[p].analysis.v.overallTone = "confident"

\* round(100 * p / (p + n)), a tie going up
RoundedPercent(p, n) == (200 * p + (p + n)) \div (2 * (p + n))

\* C19: for match counts p and n and bonus flag b the keyword scorer's score is
\* min(100, base + (10 if b else 0)), where base is 50 when p + n = 0 and
\* round(100 * p / (p + n)) otherwise, and lies between 0 and 100.
C19_ScoreIsRoundedRatioPlusBonus ==
    \A p \in Procs :
        LocalResult(p) =>
            LET base == IF Positives(p) + Negatives(p) = 0 THEN 50
                        ELSE RoundedPercent(Positives(p), Negatives(p))
                bonus == IF HasBonus(toLowerCase(task[p].req.transcript.text)) THEN 10 ELSE 0
                v == task[p].analysis.v.managementSentiment.score.v
            IN /\ v = IF base + bonus > 100 THEN 100 ELSE base + bonus
               /\ 0 <= v /\ v <= 100


\* ------------------------------------------------------------------------
\* Properties of batchAnalyzeWithAI
\* ------------------------------------------------------------------------
\* the log of a batch in which call i + 1 starts only after call i has returned
Alternating(log) ==
    \A j \in DOMAIN log :
        log[j] = IF j % 2 = 1 THEN Called((j + 1) \div 2) ELSE Returned(j \div 2)

\* C20: a batch calls the remote scorer once per entry, in input order, each
\* call starting only after the one before has returned; while a call waits for
\* the limiter or for the provider, it is the only call of the batch that has
\* not returned.
C20_BatchIsSequential ==
    \A p \in Procs :
        kind[p] = "batch" =>
            /\ Alternating(task[p].log)
            /\ task[p].pc = "done" => Len(task[p].log) = 2 * Len(task[p].entries)
            /\ task[p].pc \in {"suspended", "fetching"} =>
                  /\ Len(task[p].log) = 2 * task[p].index - 1
                  /\ task[p].req.transcript = Str(task[p].entries[task[p].index].content)

\* a batch of three entries is at its third: the first call waited for the
\* limiter, two calls have returned, the third is with the provider
C20_Witness ==
    \E p \in Procs :
        /\ kind[p] = "batch"
        /\ Len(task[p].entries) = 3
        /\ task[p].index = 3
        /\ task[p].pc = "fetching"
        /\ now >= timeWindow
        /\ task[p].log = <<Called(1), Returned(1), Called(2), Returned(2), Called(3)>>


\* the entries of s with label q whose scoring has returned a result
Successes(s, q) ==
    {i \in DOMAIN s.outcomes : s.entries[i].quarter = q /\ s.outcomes[i].t = "value"}

\* C21: at every point of a batch, and so in the mapping it returns, a label
\* has an entry iff an entry of the list with that label was scored
\* successfully, and the entry is the result of the last such scoring (so an
\* unavailable scoring adds, removes and changes nothing).
C21_EntryIffScoredAndLastWins ==
    \A p \in Procs :
        kind[p] = "batch" =>
            \A q \in Quarters :
                LET own == task[p].results.own
                    ok == Successes(task[p], q)
                IN /\ q \in DOMAIN own <=> ok # {}
                   /\ q \in DOMAIN own /\ ok # {} =>
                         own[q] = task[p].outcomes[Greatest(ok)]


\* ------------------------------------------------------------------------
\* Properties of compareQuartersWithAI
\* ------------------------------------------------------------------------
Comparers == {p \in Procs : kind[p] = "compare"}

\* C22: called with fewer than 2 entries or without a credential,
\* compareQuartersWithAI returns {trend: stable, insights: ['Not enough data
\* for AI comparison']} within the step that calls it: it does not call the
\* limiter, sends no provider request and leaves the limiter's requests as
\* they were.
C22_TooFewOrNoCredentialReturnsFixed ==
    [][\A p \in Comparers :
          (task[p].pc = "idle" /\ task[p]'.pc # "idle"
              /\ (apiKey = "" \/ Len(task[p]'.entries) < 2)) =>
              /\ task[p]'.pc = "done"
              /\ task[p]'.analysis =
                    Val([trend |-> "stable",
                         insights |-> <<"Not enough data for AI comparison">>])
              /\ task[p]'.did = Nothing
              /\ ~task[p]'.ai.called
              /\ requests' = requests]_vars

\* with a credential, a comparison of a single entry has returned the fixed
\* result while the limiter held a full window of stamps, which it still holds
C22_Witness ==
    \E p \in Comparers :
        /\ apiKey # ""
        /\ Len(task[p].entries) = 1
        /\ task[p].pc = "done"
        /\ task[p].analysis = Val(NotEnoughData)
        /\ task[p].did = Nothing
        /\ Len(requests) = maxRequests

\* the positions of a provider text at which a well-formed JSON object starts
\* ("{" directly followed by "}" is the empty object)
ObjectsIn(text) ==
    {i \in DOMAIN text :
        \/ text[i].k = "json"
        \/ text[i].k = "open" /\ i < Len(text) /\ text[i + 1].k = "close"}

\* the failures of a comparison: a network exception, a non-success status, a
\* response that is no JSON or holds no text, a text without a well-formed
\* JSON object
ComparisonFailure(r) ==
    \/ r.net # "resolves"
    \/ ~r.ok
    \/ ~r.json
    \/ ~r.hasText
    \/ ObjectsIn(r.text) = {}

\* C23: with a credential and at least 2 entries, compareQuartersWithAI calls
\* waitIfNeeded once, pushes one stamp and then sends one provider request; it
\* never raises, it returns {trend: stable, insights: ['AI comparison
\* unavailable']} on every failure, and the provider's object when the text
\* is one JSON object.
C23_OneCallAndNeverThrows ==
    \A p \in Comparers :
        (apiKey # "" /\ Len(task[p].entries) >= 2) =>
            /\ task[p].pc = "suspended" =>
                  task[p].did = [wait |-> 1, push |-> 0, fetch |-> 0, local |-> 0]
            /\ task[p].pc \in {"fetching", "done"} =>
                  task[p].did = [wait |-> 1, push |-> 1, fetch |-> 1, local |-> 0]
            /\ task[p].pc = "done" =>
                  /\ task[p].ai.called
                  /\ task[p].analysis.t = "value"
                  /\ ComparisonFailure(task[p].ai.reply) =>
                        task[p].analysis =
                            Val([trend |-> "stable",
                                 insights |-> <<"AI comparison unavailable">>])
                  /\ (~ComparisonFailure(task[p].ai.reply)
                        /\ SoleObject(task[p].ai.reply.text)) =>
                        task[p].analysis = Val(TheObject(task[p].ai.reply.text))

\* a comparison of two or more entries waited for its slot, its request was
\* rejected by the network, and it returned the fixed result
C23_Witness ==
    \E p \in Comparers :
        /\ apiKey # ""
        /\ Len(task[p].entries) >= 2
        /\ task[p].pc = "done"
        /\ task[p].lim.waited
        /\ task[p].ai.reply.net = "rejects"
        /\ task[p].did.fetch = 1
        /\ task[p].analysis = Val(ComparisonUnavailable)


\* the score the keyword scorer gives the text of entry i of s
EntryScore(s, i) ==
    analyzeTranscript(Str(s.entries[i].content)).v.managementSentiment.score.v

\* C24: without a remote provider, a comparison of 2 or more quarters follows
\* their scores: improving when the latest is above the earliest by 30 or
\* more (as for [40, 70]), declining when it is below by 30 or more (as for
\* [70, 40]), stable when they differ by 3 or less (as for [55, 58]).
C24_TrendFollowsScores ==
    \A p \in Comparers :
        (apiKey = "" /\ task[p].pc = "done" /\ Len(task[p].entries) >= 2) =>
            LET earliest == EntryScore(task[p], 1)
                latest == EntryScore(task[p], Len(task[p].entries))
                trend == task[p].analysis.v.trend
            IN /\ latest - earliest >= 30 => trend = "improving"
               /\ earliest - latest >= 30 => trend = "declining"
               /\ (latest - earliest <= 3 /\ earliest - latest <= 3) => trend = "stable"


\* ------------------------------------------------------------------------
\* Properties of the quarter-keyed maps
\* ------------------------------------------------------------------------
Keepers == {p \in Procs : kind[p] \in {"batch", "dashboard"}}

\* C25: the batch's results and the dashboard's historicalData hold one entry
\* per label (a map from labels to results); a step that stores a successful
\* analysis under a label makes it the entry of that label, replacing any
\* earlier one, and leaves the entries of all other labels as they were.
C25_LaterStoreReplacesEarlier ==
    [][\A p \in Keepers :
          LET n == Len(task[p]'.outcomes)
              own == task[p].results.own
              ownAfter == task[p]'.results.own
          IN (n > Len(task[p].outcomes) /\ task[p]'.outcomes[n].t = "value") =>
                LET q == task[p]'.entries[n].quarter
                IN /\ q \in DOMAIN ownAfter
                   /\ q \in DOMAIN ownAfter => ownAfter[q] = task[p]'.outcomes[n]
                   /\ DOMAIN ownAfter \ {q} = DOMAIN own \ {q}
                   /\ \A other \in (DOMAIN ownAfter \cap DOMAIN own) \ {q} :
                         ownAfter[other] = own[other]]_vars


\* ------------------------------------------------------------------------
\* Properties of the transcripts route
\* ------------------------------------------------------------------------
\* a listing endpoint's reply that yields an earnings item: the request
\* succeeds, the body is JSON whose data is an array whose items can all be
\* read, and one of them has an earnings title
Yields(r) ==
    /\ r.net = "resolves" /\ r.ok /\ r.json /\ r.isArray
    /\ \A i \in DOMAIN r.data : ~r.data[i].raises
    /\ \E i \in DOMAIN r.data : r.data[i].earnings

\* C26: every answer of the transcripts route has status 200, success true
\* and a non-empty list of transcripts; a request served without a provider
\* key (no endpoint is tried) or one whose three listing endpoints all fail,
\* raise or yield no earnings item is answered with source 'mock' and the
\* bundled mock transcripts.
C26_TranscriptsAlwaysSucceed ==
    \A p \in Procs :
        (kind[p] = "transcripts" /\ task[p].pc = "done") =>
            LET answer == task[p].response
                tried == task[p].log
            IN /\ answer.status = 200
               /\ answer.success
               /\ Len(answer.transcripts) >= 1
               /\ (\A i \in DOMAIN tried : ~Yields(tried[i])) =>
                     /\ Len(tried) \in {0, 3}
                     /\ answer.source = "mock"
                     /\ answer.transcripts = getMockTranscripts

\* the route was answered with the mock transcripts after its three listing
\* endpoints failed: one rejected, one raised on an item, one had no earnings
\* item
C26_Witness ==
    \E p \in Procs :
        /\ kind[p] = "transcripts" /\ task[p].pc = "done"
        /\ Len(task[p].log) = 3
        /\ task[p].log[1].net = "rejects"
        /\ \E i \in DOMAIN task[p].log[2].data : task[p].log[2].data[i].raises
        /\ task[p].log[3].data = <<Item(FALSE, FALSE, "", FALSE)>>
        /\ task[p].response.source = "mock"
        /\ task[p].response.transcripts = getMockTranscripts


\* ------------------------------------------------------------------------
\* Further properties of the rate limiter
\* ------------------------------------------------------------------------
\* a step in which a call of waitIfNeeded completes
Completes == now' = now /\ released' # released

\* C27: when a call of waitIfNeeded completes, fewer than maxRequests of the
\* timestamps in requests lie within the timeWindow that ends at that moment.
C27_FewerThanMaxAfterCompletion ==
    [][Completes =>
          Cardinality({i \in DOMAIN requests' : now' - requests'[i] < timeWindow})
              < maxRequests]_vars

\* C28: in every state requests is non-decreasing in insertion order: each
\* timestamp is >= every timestamp appended before it.
C28_RequestsNonDecreasing ==
    \A i, j \in DOMAIN requests : i < j => requests[i] <= requests[j]

\* C29: the timestamp recorded for a call is the time at which the caller was
\* released, also when it waited, and it is not older than timeWindow when it
\* enters requests.
C29_StampIsReleaseTime ==
    \A i \in DOMAIN released :
        /\ released[i].stamp = released[i].at
        /\ released[i].at - released[i].stamp <= timeWindow

\* the callers inside the limiter's wait or with a provider request open
InRemoteCall == {p \in Procs : task[p].pc \in {"suspended", "fetching"}}

\* C30: remote calls are serialized process-wide: at no time is more than
\* one caller inside the limiter's wait or a provider request.
C30_RemoteCallsSerialized == Cardinality(InRemoteCall) <= 1


\* ------------------------------------------------------------------------
\* Properties of the text the remote scorer parses
\* ------------------------------------------------------------------------
\* opening braces less closing braces of text[i..j] (the braces of a well-formed
\* object cancel)
Depth(text, i, j) ==
    Cardinality({n \in i..j : text[n].k = "open"})
        - Cardinality({n \in i..j : text[n].k = "close"})

\* the ends of the balanced substrings that start at the first "{"
BalancedEnds(text) ==
    LET i == Least(Opens(text))
    IN {j \in i..Len(text) :
           /\ text[j].k \in {"close", "json"}
           /\ Depth(text, i, j) = 0
           /\ \A n \in i..(j - 1) : Depth(text, i, n) > 0 \/ text[i].k = "json"}

HasFirstBalanced(text) == Opens(text) # {} /\ BalancedEnds(text) # {}

\* the first balanced {...} substring of the text
FirstBalanced(text) == SubSeq(text, Least(Opens(text)), Least(BalancedEnds(text)))

\* the provider's reply reached line 110 with a text
HasResultText(r) == r.net = "resolves" /\ r.ok /\ r.json /\ r.hasText

\* the first balanced substring of the text is a JSON object with a
\* managementSentiment
FirstObjectScores(text) ==
    /\ HasFirstBalanced(text)
    /\ JsonParse(FirstBalanced(text)).t = "value"
    /\ JsonParse(FirstBalanced(text)).v.hasMS

\* C31: analyzeTranscriptWithAI parses the first balanced {...} substring of the
\* provider's text: when that substring is a JSON object with a
\* managementSentiment a result is returned, whatever follows it in the text,
\* and null is returned for a text only when it has no such substring, or the
\* substring does not parse or has no managementSentiment.
C31_FirstBalancedObjectIsParsed ==
    \A p \in Procs :
        (task[p].ai.called /\ HasResultText(task[p].ai.reply)) =>
            (task[p].ai.ret.t = "value" <=> FirstObjectScores(task[p].ai.reply.text))

\* ------------------------------------------------------------------------
\* Properties of the keyword scorer's themes and tone, and of analyzeQASection
\* ------------------------------------------------------------------------
\* the rows of the theme table one of whose triggers occurs in the text p had
\* scored
Matched(p) ==
    {n \in DOMAIN ThemeTable :
        ThemeMatches(toLowerCase(task[p].req.transcript.text), ThemeTable[n])}

\* the i-th row of a set of rows, in table order
Nth(rows, i) == CHOOSE n \in rows : Cardinality({m \in rows : m <= n}) = i

\* C32: the keyword scorer's theme list holds, in table order, the categories
\* one of whose trigger substrings occurs in the text, cut to the first 5; the
\* default theme appears iff no category matched and is then the only entry;
\* when all six categories match, Strategic Partnerships is the one dropped.
C32_ThemesInTableOrder ==
    \A p \in Procs :
        LocalResult(p) =>
            LET themes == task[p].analysis.v.keyThemes
                names == {themes[i] : i \in DOMAIN themes}
            IN /\ Len(themes) = IF Matched(p) = {} THEN 1
                                ELSE IF Cardinality(Matched(p)) > 5 THEN 5
                                ELSE Cardinality(Matched(p))
               /\ Matched(p) # {} =>
                     \A i \in DOMAIN themes : themes[i] = ThemeTable[Nth(Matched(p), i)].name
               /\ "General Business Performance" \in names <=> Matched(p) = {}
               /\ Matched(p) = {} => themes = <<"General Business Performance">>
               /\ Cardinality(Matched(p)) = 6 =>
                     /\ "Strategic Partnerships" \notin names
                     /\ \A n \in 1..5 : ThemeTable[n].name \in names

\* all six categories matched, the first through the "ai" inside "gain", in a
\* text that names them in the reverse of the table order: the list starts
\* with AI/ML Growth and has no Strategic Partnerships
C32_Witness ==
    \E p \in Procs :
        /\ LocalResult(p)
        /\ task[p].req.transcript.text =
              <<"partner", "automotive", "supply", "gaming", "cloud", "gain">>
        /\ Cardinality(Matched(p)) = 6
        /\ task[p].analysis.v.keyThemes[1] = "AI/ML Growth"
        /\ task[p].analysis.v.keyThemes[5] = "Automotive Innovation"

\* the words of a list the text p handed to analyzeQASection includes
Present(p, words) ==
    {i \in DOMAIN words : IncludesWord(toLowerCase(task[p].req.transcript.text), words[i])}

\* C33: analyzeQASection always returns a result: its score is 50, plus 5 for
\* each confident phrase the text includes, minus 5 for each defensive phrase
\* it includes, clamped to [0,100], and its label is positive iff score >= 65,
\* neutral iff 35 <= score < 65, negative iff score < 35.
C33_QAScoreAndLabel ==
    \A p \in Procs :
        (kind[p] = "qa" /\ task[p].pc = "done") =>
            /\ task[p].analysis.t = "value"
            /\ LET raw == 50 + 5 * Cardinality(Present(p, confidentWords))
                             - 5 * Cardinality(Present(p, defensiveWords))
                   want == IF raw < 0 THEN 0 ELSE IF raw > 100 THEN 100 ELSE raw
                   got == task[p].analysis.v
               IN /\ got.score = Whole(want)
                  /\ got.label = "positive" <=> want >= 65
                  /\ got.label = "neutral" <=> (35 <= want /\ want < 65)
                  /\ got.label = "negative" <=> want < 35

\* a text that says one confident phrase twice scored 55, neutral
C33_Witness ==
    \E p \in Procs :
        /\ kind[p] = "qa" /\ task[p].pc = "done"
        /\ task[p].req.transcript.text = <<"Absolutely", "absolutely">>
        /\ task[p].analysis.v.score = Whole(55)
        /\ task[p].analysis.v.label = "neutral"

\* ------------------------------------------------------------------------
\* Properties of what compareQuartersWithAI returns
\* ------------------------------------------------------------------------
\* C34: every result compareQuartersWithAI returns has a trend that is one of
\* improving, stable, declining, and insights, whatever JSON object the
\* provider's text contains.
C34_ComparisonHasDeclaredShape ==
    \A p \in Comparers :
        (task[p].pc = "done" /\ task[p].analysis.t = "value") =>
            LET result == task[p].analysis.v
            IN /\ "trend" \in DOMAIN result
               /\ "insights" \in DOMAIN result
               /\ result.trend \in {"improving", "stable", "declining"}

\* C35: in every result of the keyword scorer, tone confident implies label
\* positive, tone cautious implies label negative, and label neutral implies
\* tone mixed: the pairs (confident, neutral), (confident, negative),
\* (cautious, neutral), (cautious, positive) do not occur.
C35_ToneAndLabelCoupled ==
    \A p \in Procs :
        LocalResult(p) =>
            LET tone == task[p].analysis.v.overallTone
                label == task[p].analysis.v.managementSentiment.label
            IN /\ tone = "confident" => label = "positive"
               /\ tone = "cautious" => label = "negative"
               /\ label = "neutral" => tone = "mixed"
               /\ <<tone, label>> \notin
                     {<<"confident", "neutral">>, <<"confident", "negative">>,
                      <<"cautious", "neutral">>, <<"cautious", "positive">>}

\* a text with two positive words and one negative word scored 67: the label
\* is positive while the tone is still mixed
C35_Witness ==
    \E p \in Procs :
        /\ LocalResult(p)
        /\ Positives(p) = 2 /\ Negatives(p) = 1
        /\ task[p].analysis.v.managementSentiment.score = Whole(67)
        /\ task[p].analysis.v.managementSentiment.label = "positive"
        /\ task[p].analysis.v.overallTone = "mixed"

\* ------------------------------------------------------------------------
\* Properties of a single waitIfNeeded call
\* ------------------------------------------------------------------------
\* the callers that suspend in this step
Suspending == {p \in Procs : task[p].pc = "idle" /\ task[p]'.pc = "suspended"}

\* the callers that wake in this step
Waking == {p \in Procs : task[p].pc = "suspended" /\ task[p]' # task[p]}

\* C36: a call of waitIfNeeded that finds fewer than maxRequests stamps in the
\* window appends its stamp in the step that makes it and does not suspend; a
\* call that finds the window full appends nothing yet and suspends, for a
\* time above 0 and at most timeWindow; a suspended call wakes no earlier than
\* its timer, and the step in which it wakes appends its one stamp to
\* requests as they are then, without filtering or counting them, and ends
\* the call, so that no call suspends twice.
C36_OneSuspensionOneStamp ==
    [][/\ budget' < budget =>
             LET kept == Retained(requests, now)
             IN IF Len(kept) >= maxRequests
                THEN /\ Cardinality(Suspending) = 1
                     /\ requests' = kept
                     /\ \A p \in Suspending :
                           /\ task[p]'.timer - now > 0
                           /\ task[p]'.timer - now <= timeWindow
                ELSE /\ Suspending = {}
                     /\ requests' = Append(kept, now)
       /\ \A p \in Waking :
             /\ now >= task[p].timer
             /\ task[p]'.pc = "idle"
             /\ requests' = Append(requests, task[p].lim.now)]_vars

\* a caller that had found the window full has woken and pushed its stamp
\* behind the later stamp of another caller, into a window that held
\* maxRequests stamps already
C36_Witness ==
    /\ Len(requests) > maxRequests
    /\ Cardinality(StampsInWindow) = maxRequests + 1
    /\ requests[Len(requests) - 1] > requests[Len(requests)]
    /\ \E i \in DOMAIN released :
         /\ released[i].waited /\ released[i].full
         /\ released[i].stamp = requests[Len(requests)]
         /\ released[i].at = now

\* ------------------------------------------------------------------------
\* Properties of the transcripts the route builds from a listing
\* ------------------------------------------------------------------------
\* the contents getMockTranscriptContent can return
MockContents ==
    {getMockTranscriptContent(q) : q \in {"Q3 2024", "Q2 2024", "Q1 2024", "Q4 2023", ""}}

\* C37: an answer built from the provider's listing has at most 4 entries,
\* one for each of the first items of the list; every entry has non-empty
\* content; success is true iff the source is 'Seeking Alpha' iff the content
\* is what the provider sent; an entry for which every attempt failed (or
\* whose content was empty once cleaned) carries the mock content of its
\* quarter with success false and source 'mock'.
C37_HybridEntries ==
    \A p \in Procs :
        (kind[p] = "transcripts" /\ task[p].pc = "done"
            /\ task[p].response.source = "hybrid") =>
            LET entries == task[p].response.transcripts
                s == task[p]
            IN /\ Len(entries) <= 4
               /\ Len(entries) = IF Len(s.list) < 4 THEN Len(s.list) ELSE 4
               /\ Len(s.outcomes) = Len(entries)
               /\ \A i \in DOMAIN entries :
                     /\ entries[i].content # EmptyContent
                     /\ entries[i].success <=> entries[i].source = "Seeking Alpha"
                     /\ ~entries[i].success <=> entries[i].source = "mock"
                     /\ entries[i].success <=> s.outcomes[i] = "text"
                     /\ entries[i].success => entries[i].content = [fetched |-> i]
                     /\ ~entries[i].success =>
                           /\ entries[i].content \in MockContents
                           /\ entries[i].content = getMockTranscriptContent(s.list[i].quarter)

\* a list of five items gave four entries: the first from the provider, the
\* second mock because every attempt failed, the third mock because the
\* content was empty once cleaned
C37_Witness ==
    \E p \in Procs :
        /\ kind[p] = "transcripts" /\ task[p].pc = "done"
        /\ task[p].response.source = "hybrid"
        /\ Len(task[p].list) = 5
        /\ Len(task[p].response.transcripts) = 4
        /\ task[p].outcomes[1] = "text" /\ task[p].response.transcripts[1].success
        /\ task[p].outcomes[2] = "nothing" /\ ~task[p].response.transcripts[2].success
        /\ task[p].outcomes[3] = "empty"
        /\ task[p].response.transcripts[3].source = "mock"

=========================================================================
